---- MODULE Spec2Model ----
(***************************************************************************)
(* NMEA reception pipeline of the repository: the IComms byte source, the  *)
(* NMEAReader receive buffer with its sentence extraction, and the         *)
(* NMEAParser validation, tokenizing and decoding of a sentence.           *)
(*                                                                         *)
(* Spec is one reader on a byte stream, SpecGarbage one reader on a source *)
(* of garbage, SpecParser one call of parseSentence on a sentence, and     *)
(* SpecTwin two fresh readers that are given the identical reads.          *)
(* SpecLive is Spec with the reading thread running on, SpecChunked two    *)
(* readers of one stream under different cuts.  SpecComms is the framing   *)
(* TCP client Comms, SpecNetwork the NetworkComms transport.               *)
(*                                                                         *)
(* A std::string is a sequence of bytes (0..255).  The operators that      *)
(* model std::string members keep the 0-based positions of the source;     *)
(* npos is the "not found" position.                                       *)
(***************************************************************************)
EXTENDS Integers, Sequences, FiniteSets, TLC

(***************************************************************************)
(* Characters.                                                             *)
(***************************************************************************)
Ord(c) ==
    CASE c = "$" -> 36 [] c = "*" -> 42 [] c = "," -> 44 [] c = "." -> 46
      [] c = "\r" -> 13 [] c = "\n" -> 10 [] c = " " -> 32
      [] c = "+" -> 43 [] c = "-" -> 45
      [] c = "0" -> 48 [] c = "1" -> 49 [] c = "2" -> 50 [] c = "3" -> 51
      [] c = "4" -> 52 [] c = "5" -> 53 [] c = "6" -> 54 [] c = "7" -> 55
      [] c = "8" -> 56 [] c = "9" -> 57
      [] c = "A" -> 65 [] c = "B" -> 66 [] c = "C" -> 67 [] c = "D" -> 68
      [] c = "E" -> 69 [] c = "F" -> 70 [] c = "G" -> 71 [] c = "I" -> 73
      [] c = "L" -> 76
      [] c = "M" -> 77 [] c = "N" -> 78 [] c = "P" -> 80 [] c = "R" -> 82
      [] c = "S" -> 83 [] c = "T" -> 84 [] c = "V" -> 86 [] c = "W" -> 87
      [] c = "X" -> 88
      [] c = "a" -> 97 [] c = "f" -> 102 [] c = "x" -> 120

\* The bytes of a text given as a tuple of one-character strings.
Str(t) == [i \in 1..Len(t) |-> Ord(t[i])]

CRLF == Str(<<"\r", "\n">>)

Min(a, b) == IF a < b THEN a ELSE b

(***************************************************************************)
(* std::string members, 0-based.                                           *)
(***************************************************************************)
npos == -1

\* s.find(c): the position of the first byte c, or npos.
find(s, c) ==
    IF \E i \in 1..Len(s) : s[i] = c
    THEN (CHOOSE i \in 1..Len(s) : s[i] = c /\ \A j \in 1..(i - 1) : s[j] # c) - 1
    ELSE npos

\* s.find("\r\n"): the position of the first CR that is followed by LF, or npos.
findCRLF(s) ==
    IF \E i \in 1..(Len(s) - 1) : s[i] = CRLF[1] /\ s[i + 1] = CRLF[2]
    THEN (CHOOSE i \in 1..(Len(s) - 1) :
              /\ s[i] = CRLF[1] /\ s[i + 1] = CRLF[2]
              /\ \A j \in 1..(i - 1) : ~(s[j] = CRLF[1] /\ s[j + 1] = CRLF[2])) - 1
    ELSE npos

\* s.substr(pos, n) for pos <= s.size(): at most n bytes from position pos.
substr(s, pos, n) == SubSeq(s, pos + 1, Min(pos + n, Len(s)))

\* s.substr(pos) for pos <= s.size(): the bytes from position pos on.
substrFrom(s, pos) == SubSeq(s, pos + 1, Len(s))

\* s.erase(0, n): s without its first n bytes.
erase(s, n) == SubSeq(s, Min(n, Len(s)) + 1, Len(s))

(***************************************************************************)
(* NMEAParser::validateChecksum.                                           *)
(***************************************************************************)
\* Bit k of byte c.
Bit(c, k) == (c \div (2 ^ k)) % 2

\* a ^ b on unsigned char
XorByte(a, b) ==
    LET x(k) == ((Bit(a, k) + Bit(b, k)) % 2) * (2 ^ k)
    IN  x(0) + x(1) + x(2) + x(3) + x(4) + x(5) + x(6) + x(7)

\* for (i = from; i < asterisk; ++i) checksum ^= sentence[i], from checksum = 0:
\* bit k of the result is the parity of the bytes of the range that have bit k.
XorRange(sentence, from, asterisk) ==
    LET x(k) == (Cardinality({i \in (from + 1)..asterisk : Bit(sentence[i], k) = 1}) % 2)
                * (2 ^ k)
    IN  x(0) + x(1) + x(2) + x(3) + x(4) + x(5) + x(6) + x(7)

\* isspace in the "C" locale
IsSpace(c) == c \in {9, 10, 11, 12, 13, 32}

IsDigit(c) == c >= Ord("0") /\ c <= Ord("9")

\* The value of a hexadecimal digit, or -1.
HexDigitValue(c) ==
    IF IsDigit(c) THEN c - Ord("0")
    ELSE IF c >= Ord("A") /\ c <= Ord("F") THEN c - Ord("A") + 10
    ELSE IF c >= Ord("a") /\ c <= Ord("f") THEN c - Ord("a") + 10
    ELSE -1

RECURSIVE SkipSpace(_, _)
\* The first position >= i of s that holds no white space (s.size() if none).
SkipSpace(s, i) ==
    IF i < Len(s) /\ IsSpace(s[i + 1]) THEN SkipSpace(s, i + 1) ELSE i

RECURSIVE HexRun(_, _)
\* The number of consecutive hexadecimal digits of s from position i.
HexRun(s, i) ==
    IF i < Len(s) /\ HexDigitValue(s[i + 1]) >= 0 THEN 1 + HexRun(s, i + 1) ELSE 0

RECURSIVE HexValue(_, _, _)
\* The value of the n hexadecimal digits of s from position i.
HexValue(s, i, n) ==
    IF n = 0 THEN 0
    ELSE (HexValue(s, i, n - 1) * 16) + HexDigitValue(s[i + n])

\* The length of a sign at position p of s (0 or 1), and whether it is '-'.
SignLen(s, p) == IF p < Len(s) /\ s[p + 1] \in {Ord("+"), Ord("-")} THEN 1 ELSE 0

IsMinus(s, p) == p < Len(s) /\ s[p + 1] = Ord("-")

\* The length of a 0x or 0X prefix at position p of s (0 or 2).
HexPrefixLen(s, p) ==
    IF p + 1 < Len(s) /\ s[p + 1] = Ord("0") /\ s[p + 2] \in {Ord("x"), Ord("X")}
    THEN 2 ELSE 0

HexDigitsAt(hex, p2, neg) ==
    IF HexRun(hex, p2) = 0 THEN [neg |-> FALSE, mag |-> 0]
    ELSE [neg |-> neg /\ HexValue(hex, p2, HexRun(hex, p2)) > 0,
          mag |-> HexValue(hex, p2, HexRun(hex, p2))]

HexSignedAt(hex, p0) ==
    HexDigitsAt(hex, p0 + SignLen(hex, p0) + HexPrefixLen(hex, p0 + SignLen(hex, p0)),
                IsMinus(hex, p0))

\* std::istringstream(hex) >> std::hex >> expected, for an unsigned int: white
\* space is skipped, a sign and a 0x prefix are accepted, the hexadecimal
\* digits that follow are converted; when no digit can be read the extraction
\* fails and stores 0.  The result is mag, or 2^32 - mag when neg holds (a '-'
\* negates modulo 2^32); hex holds at most two bytes, so mag < 256.
HexExtract(hex) == HexSignedAt(hex, SkipSpace(hex, 0))

\* static_cast<unsigned char>(expected)
ToUChar(expected) ==
    IF expected.neg THEN (256 - (expected.mag % 256)) % 256
    ELSE expected.mag % 256

validateChecksum(sentence) ==
    IF sentence = <<>> \/ sentence[1] # Ord("$") THEN FALSE
    ELSE LET asterisk == find(sentence, Ord("*")) IN
         IF asterisk = npos \/ asterisk + 2 >= Len(sentence) THEN FALSE
         ELSE LET checksum == XorRange(sentence, 1, asterisk)
                  hex      == substr(sentence, asterisk + 1, 2)
                  expected == HexExtract(hex)
              IN  checksum = ToUChar(expected)

(***************************************************************************)
(* NMEAParser::tokenize.                                                   *)
(***************************************************************************)
RECURSIVE getlines(_)
\* while (std::getline(ss, item, ',')) fields.push_back(item), on the unread
\* rest of the stream: at end of input with nothing extracted getline fails.
getlines(rest) ==
    IF rest = <<>> THEN <<>>
    ELSE LET c == find(rest, Ord(",")) IN
         IF c = npos THEN <<rest>>
         ELSE <<substr(rest, 0, c)>> \o getlines(substrFrom(rest, c + 1))

\* npos + 1 wraps to 0; a count of end - start with end = npos reaches the end.
tokenize(sentence) ==
    LET start == find(sentence, Ord("$")) + 1
        end   == find(sentence, Ord("*"))
        body  == IF end = npos THEN substrFrom(sentence, start)
                 ELSE substr(sentence, start, end - start)
    IN  getlines(body)

(***************************************************************************)
(* std::stoi and std::stod.  A conversion result is [ok, v]: ok is FALSE   *)
(* when the call throws (std::invalid_argument, std::out_of_range).        *)
(* A double is held in thousandths (v = 1000 * value, further fractional   *)
(* digits dropped); nan and inf are the values NaNValue and InfValue.      *)
(***************************************************************************)
RECURSIVE DigitRun(_, _)
\* The number of consecutive decimal digits of s from position i.
DigitRun(s, i) ==
    IF i < Len(s) /\ IsDigit(s[i + 1]) THEN 1 + DigitRun(s, i + 1) ELSE 0

RECURSIVE ZeroRun(_, _)
\* The number of consecutive '0' of s from position i.
ZeroRun(s, i) ==
    IF i < Len(s) /\ s[i + 1] = Ord("0") THEN 1 + ZeroRun(s, i + 1) ELSE 0

RECURSIVE DecValue(_, _, _)
\* The value of the n decimal digits of s from position i.
DecValue(s, i, n) ==
    IF n = 0 THEN 0
    ELSE (DecValue(s, i, n - 1) * 10) + (s[i + n] - Ord("0"))

RECURSIVE Pow10(_)
Pow10(n) == IF n = 0 THEN 1 ELSE 10 * Pow10(n - 1)

Thrown == [ok |-> FALSE, v |-> 0]

Signed(neg, v) == IF neg THEN 0 - v ELSE v

\* n digits from position p1, z of them leading zeros: the int, or a throw of
\* std::out_of_range beyond [-2147483648, 2147483647]
stoiValue(s, p1, neg, n, z) ==
    IF n = 0 THEN Thrown
    ELSE IF n - z <= 9 THEN [ok |-> TRUE, v |-> Signed(neg, DecValue(s, p1 + z, n - z))]
    ELSE IF n - z > 10 THEN Thrown
    ELSE IF \/ DecValue(s, p1 + z, 9) < 214748364
            \/ DecValue(s, p1 + z, 9) = 214748364 /\ s[p1 + z + 10] <= Ord("7")
    THEN [ok |-> TRUE,
          v |-> Signed(neg, (DecValue(s, p1 + z, 9) * 10) + (s[p1 + z + 10] - Ord("0")))]
    ELSE IF neg /\ DecValue(s, p1 + z, 9) = 214748364 /\ s[p1 + z + 10] = Ord("8")
    THEN [ok |-> TRUE, v |-> (0 - 2147483647) - 1]
    ELSE Thrown

stoiDigits(s, p1, neg) ==
    stoiValue(s, p1, neg, DigitRun(s, p1), Min(ZeroRun(s, p1), DigitRun(s, p1)))

stoiSigned(s, p0) == stoiDigits(s, p0 + SignLen(s, p0), IsMinus(s, p0))

\* std::stoi(s): strtol in base 10 (white space, a sign, digits), then the
\* range check of int; std::invalid_argument when there is no digit.
stoi(s) == stoiSigned(s, SkipSpace(s, 0))

NaNValue == 2147483646
InfValue == 2147483647
HugeValue == 2147483645

\* toupper
Upper(c) == IF c >= 97 /\ c <= 122 THEN c - 32 ELSE c

\* s holds the text w (upper case), whatever its case, at position i.
HasWord(s, i, w) ==
    /\ i + Len(w) <= Len(s)
    /\ \A k \in 1..Len(w) : Upper(s[i + k]) = w[k]

\* The digits after a '.' at position p of s (0 when there is no '.').
FracRun(s, p) ==
    IF p < Len(s) /\ s[p + 1] = Ord(".") THEN DigitRun(s, p + 1) ELSE 0

\* The length of the fraction part at position p: the '.' and its digits.
FracLen(s, p) ==
    IF p < Len(s) /\ s[p + 1] = Ord(".") THEN 1 + DigitRun(s, p + 1) ELSE 0

\* The exponent whose digits start at pd: [neg, e], e = 1000 beyond 3 digits.
ExpDigits(s, pd, eneg, ne, ez) ==
    IF ne = 0 THEN [neg |-> FALSE, e |-> 0]
    ELSE [neg |-> eneg, e |-> IF ne - ez > 3 THEN 1000 ELSE DecValue(s, pd + ez, ne - ez)]

ExpSigned(s, pd, eneg) ==
    ExpDigits(s, pd, eneg, DigitRun(s, pd), Min(ZeroRun(s, pd), DigitRun(s, pd)))

\* The exponent part at position pe of s, if any.
ExpAt(s, pe) ==
    IF pe < Len(s) /\ Upper(s[pe + 1]) = Ord("E")
    THEN ExpSigned(s, pe + 1 + SignLen(s, pe + 1), IsMinus(s, pe + 1))
    ELSE [neg |-> FALSE, e |-> 0]

\* The mantissa in thousandths: ni integer digits from p1 (iz leading zeros),
\* nf fraction digits; wide when it has more than 6 significant integer digits.
Mantissa(s, p1, ni, iz, nf) ==
    [zero |-> ni = iz /\ (nf = 0 \/ ZeroRun(s, p1 + ni + 1) >= nf),
     wide |-> ni - iz > 6,
     m    |-> (IF ni - iz > 6 THEN 0 ELSE DecValue(s, p1 + iz, ni - iz) * 1000)
              + (DecValue(s, p1 + ni + 1, Min(nf, 3)) * Pow10(3 - Min(nf, 3)))]

stodScale(neg, man, exp) ==
    IF ~man.zero /\ exp.e > 308 THEN Thrown
    ELSE IF man.zero THEN [ok |-> TRUE, v |-> 0]
    ELSE IF man.wide THEN [ok |-> TRUE, v |-> HugeValue]
    ELSE IF exp.e = 0 THEN [ok |-> TRUE, v |-> Signed(neg, man.m)]
    ELSE IF exp.neg
    THEN [ok |-> TRUE,
          v |-> IF exp.e > 9 THEN 0 ELSE Signed(neg, man.m \div Pow10(exp.e))]
    ELSE IF exp.e > 3 \/ man.m >= 1000000 THEN [ok |-> TRUE, v |-> HugeValue]
    ELSE [ok |-> TRUE, v |-> Signed(neg, man.m * Pow10(exp.e))]

stodNumber(s, p1, neg, ni, nf) ==
    IF ni + nf = 0 THEN Thrown
    ELSE stodScale(neg, Mantissa(s, p1, ni, Min(ZeroRun(s, p1), ni), nf),
                   ExpAt(s, p1 + ni + FracLen(s, p1 + ni)))

stodSigned(s, p1, neg) ==
    IF HasWord(s, p1, Str(<<"I", "N", "F">>)) THEN [ok |-> TRUE, v |-> InfValue]
    ELSE IF HasWord(s, p1, Str(<<"N", "A", "N">>)) THEN [ok |-> TRUE, v |-> NaNValue]
    ELSE stodNumber(s, p1, neg, DigitRun(s, p1), FracRun(s, p1 + DigitRun(s, p1)))

stodFrom(s, p0) == stodSigned(s, p0 + SignLen(s, p0), IsMinus(s, p0))

\* std::stod(s): strtod.  White space, a sign, then "inf" or "nan", or a
\* decimal number with at least one digit and an optional exponent.  A
\* magnitude beyond the thousandths held here is the value HugeValue; a
\* decimal exponent beyond the range of double throws std::out_of_range.
stod(s) == stodFrom(s, SkipSpace(s, 0))

(***************************************************************************)
(* NMEAParser::parseLatitude, parseLongitude and parseSentence.            *)
(* A coordinate is held in units of 1/60000 degree, so that                *)
(* degrees + minutes / 60 is exact for minutes given in thousandths.       *)
(***************************************************************************)
IsSpecial(v) == v >= HugeValue

\* deg + (min / 60.0), negated when negate holds
DegMin(deg, min, negate) ==
    IF IsSpecial(deg) \/ deg < 0 - HugeValue THEN deg
    ELSE IF IsSpecial(min) \/ min < 0 - HugeValue THEN min
    ELSE IF negate THEN 0 - ((deg * 60) + min) ELSE (deg * 60) + min

\* value.substr(n) throws std::out_of_range when n > value.size()
parseCoordinate(value, direction, degDigits, negDir) ==
    IF value = <<>> THEN [ok |-> TRUE, v |-> 0]
    ELSE LET deg == stod(substr(value, 0, degDigits)) IN
         IF ~deg.ok \/ Len(value) < degDigits THEN Thrown
         ELSE LET min == stod(substrFrom(value, degDigits)) IN
              IF ~min.ok THEN Thrown
              ELSE [ok |-> TRUE, v |-> DegMin(deg.v, min.v, direction = negDir)]

parseLatitude(value, direction) == parseCoordinate(value, direction, 2, Ord("S"))

\* Mutant of parseLongitude: two digits of degrees, as for a latitude.
parseLongitude_twoDigits(value, direction) ==
    parseCoordinate(value, direction, 2, Ord("W"))

parseLongitude(value, direction) == parseCoordinate(value, direction, 3, Ord("W"))

\* str[0]: the first byte, or the terminating '\0' of an empty string
CharAt0(str) == IF str = <<>> THEN 0 ELSE str[1]

\* The members a builder assigns, in the order of the assignments.
IntM(name, c) == [m |-> name, k |-> "int", ok |-> c.ok, i |-> c.v, s |-> <<>>]
DblM(name, c) == [m |-> name, k |-> "double", ok |-> c.ok, i |-> c.v, s |-> <<>>]
ChrM(name, c) == [m |-> name, k |-> "char", ok |-> TRUE, i |-> c, s |-> <<>>]
StrM(name, str) == [m |-> name, k |-> "string", ok |-> TRUE, i |-> 0, s |-> str]

NullOpt == [kind |-> "nullopt", type |-> "", members |-> <<>>]

\* The outcome of one branch of parseSentence: std::nullopt when a conversion
\* throws (catch (...)); otherwise the last assignment of every branch reads
\* fields[last], which is outside the vector when last >= fields.size(); else
\* the message.
Built(type, members, last, size) ==
    LET outside == last >= size
        checked == IF outside THEN Len(members) - 1 ELSE Len(members)
        member(j) == [m |-> members[j].m, i |-> members[j].i, s |-> members[j].s,
                      k |-> IF outside /\ j = Len(members) THEN "indeterminate"
                            ELSE members[j].k]
    IN  IF \E j \in 1..checked : ~members[j].ok THEN NullOpt
        ELSE [kind |-> IF outside THEN "ub" ELSE "msg", type |-> type,
              members |-> [j \in 1..Len(members) |-> member(j)]]

\* fields[k] of a std::vector; the empty string stands in where the branch
\* reads outside the vector (Built reports that read)
Fld(fields, k) == IF k < Len(fields) THEN fields[k + 1] ELSE <<>>

RECURSIVE SatellitesUsed(_, _)
\* for (i = 3; i <= 14; ++i) if (!fields[i].empty()) push_back(stoi(fields[i]))
SatellitesUsed(fields, i) ==
    IF i > 14 THEN <<>>
    ELSE IF Fld(fields, i) = <<>> THEN SatellitesUsed(fields, i + 1)
    ELSE <<IntM("satellitesUsed", stoi(Fld(fields, i)))>> \o SatellitesUsed(fields, i + 1)

parseSentence(sentence) ==
    IF ~validateChecksum(sentence) THEN NullOpt
    ELSE LET fields == tokenize(sentence)
             size   == Len(fields)
             F(k)   == Fld(fields, k)
         IN
         IF fields = <<>> THEN NullOpt
         ELSE LET type == fields[1] IN
         IF type = Str(<<"G", "P", "R", "M", "C">>) /\ size >= 10 THEN
             Built("GPRMC",
                   << StrM("utcTime", F(1)), ChrM("status", CharAt0(F(2))),
                      DblM("latitude", parseLatitude(F(3), CharAt0(F(4)))),
                      DblM("longitude", parseLongitude(F(5), CharAt0(F(6)))),
                      DblM("speed", stod(F(7))), DblM("course", stod(F(8))),
                      StrM("date", F(9)) >>, 9, size)
         ELSE IF type = Str(<<"G", "P", "G", "G", "A">>) /\ size >= 10 THEN
             Built("GPGGA",
                   << StrM("utcTime", F(1)),
                      DblM("latitude", parseLatitude(F(2), CharAt0(F(3)))),
                      DblM("longitude", parseLongitude(F(4), CharAt0(F(5)))),
                      IntM("fixQuality", stoi(F(6))), IntM("numSatellites", stoi(F(7))),
                      DblM("hdop", stod(F(8))), DblM("altitude", stod(F(9))),
                      ChrM("altitudeUnits", CharAt0(F(10))) >>, 10, size)
         ELSE IF type = Str(<<"G", "P", "G", "L", "L">>) /\ size >= 6 THEN
             Built("GPGLL",
                   << DblM("latitude", parseLatitude(F(1), CharAt0(F(2)))),
                      DblM("longitude", parseLongitude(F(3), CharAt0(F(4)))),
                      StrM("utcTime", F(5)), ChrM("status", CharAt0(F(6))) >>, 6, size)
         ELSE IF type = Str(<<"G", "P", "V", "T", "G">>) /\ size >= 8 THEN
             Built("GPVTG",
                   << DblM("courseTrue", stod(F(1))), ChrM("courseTrueUnit", CharAt0(F(2))),
                      DblM("speedKnots", stod(F(5))), ChrM("speedKnotsUnit", CharAt0(F(6))),
                      DblM("speedKmh", stod(F(7))),
                      ChrM("speedKmhUnit", CharAt0(F(8))) >>, 8, size)
         ELSE IF type = Str(<<"G", "P", "G", "S", "A">>) /\ size >= 17 THEN
             Built("GPGSA",
                   << ChrM("mode", CharAt0(F(1))), IntM("fixType", stoi(F(2))) >>
                   \o SatellitesUsed(fields, 3)
                   \o << DblM("pdop", stod(F(15))), DblM("hdop", stod(F(16))),
                         DblM("vdop", stod(F(17))) >>, 17, size)
         ELSE IF type = Str(<<"G", "P", "G", "S", "V">>) /\ size >= 4 THEN
             Built("GPGSV",
                   << IntM("totalMessages", stoi(F(1))), IntM("messageNumber", stoi(F(2))),
                      IntM("satellitesInView", stoi(F(3))) >>, 3, size)
         ELSE NullOpt

(***************************************************************************)
(* NMEAReader.                                                             *)
(***************************************************************************)
\* readBytes(128, _readTimeoutMs): the most bytes one read returns
ReadSize == 128

\* Mutant of discardGarbage: the bytes before the '$' stay.
discardGarbage_kept(buffer, startPos) == buffer

\* _receiveBuffer.erase(0, startPos) when startPos > 0
discardGarbage(buffer, startPos) ==
    IF startPos > 0 THEN erase(buffer, startPos) ELSE buffer

\* Mutant of removeSentence: what follows the sentence goes with it.
removeSentence_all(buffer, endPos) == <<>>

\* Mutant of removeSentence: the terminator stays in the buffer.
removeSentence_noCRLF(buffer, endPos) == erase(buffer, endPos)

\* _receiveBuffer.erase(0, endPos + 2)
removeSentence(buffer, endPos) == erase(buffer, endPos + 2)

\* checksumDelimiterPos == npos || checksumDelimiterPos + 2 >= length()
missingChecksum(completeSentence) ==
    LET checksumDelimiterPos == find(completeSentence, Ord("*"))
    IN  \/ checksumDelimiterPos = npos
        \/ checksumDelimiterPos + 2 >= Len(completeSentence)

\* Mutant of clearBuffer: a buffer without '$' is kept.
clearBuffer_kept(buffer) == buffer

\* _receiveBuffer.clear() when the buffer holds no '$'
clearBuffer(buffer) == <<>>

\* Mutant of findEnd: a sentence ends at the first '\r'.
findEnd_CR(buffer) == find(buffer, 13)

\* _receiveBuffer.find("\r\n")
findEnd(buffer) == findCRLF(buffer)

\* _receiveBuffer.substr(0, endPos)
sentenceOf(buffer, endPos) == substr(buffer, 0, endPos)

\* The value returned (has, sentence) and the buffer the call leaves.
extractCompleteSentence(buffer) ==
    LET startPos == find(buffer, Ord("$")) IN
    IF startPos = npos
    THEN [has |-> FALSE, sentence |-> <<>>, buffer |-> clearBuffer(buffer)]
    ELSE LET trimmed == discardGarbage(buffer, startPos)
             endPos  == findEnd(trimmed)
         IN  IF endPos = npos
             THEN [has |-> FALSE, sentence |-> <<>>, buffer |-> trimmed]
             ELSE LET completeSentence == sentenceOf(trimmed, endPos)
                      rest == removeSentence(trimmed, endPos)
                  IN  IF missingChecksum(completeSentence)
                      THEN [has |-> FALSE, sentence |-> <<>>, buffer |-> rest]
                      ELSE [has |-> TRUE, sentence |-> completeSentence, buffer |-> rest]

\* NMEAParser::parse, which readAndParseSentence calls: the message of
\* parseSentence, and a std::runtime_error ("throw") where that has none.
\* Reading outside the field vector is undefined: the call may end the
\* program ("crash") or deliver the message with an indeterminate member.
parse(sentence) ==
    UNION { UNION { IF r.kind = "nullopt"
                    THEN {[kind |-> "throw", type |-> "", members |-> <<>>]}
                    ELSE IF r.kind = "ub"
                    THEN {[kind |-> "crash", type |-> "", members |-> <<>>],
                          [kind |-> "msg", type |-> r.type, members |-> r.members]}
                    ELSE {r}
                    : r \in {parseSentence(s)} }
            : s \in {sentence} }

\* Mutant of onEmptyRead: a timed-out read drops what is buffered.
onEmptyRead_drop(buffer) == <<>>

\* newData.empty(): return std::nullopt, the buffer stays as it is
onEmptyRead(buffer) == buffer

\* _receiveBuffer.append(newData)
appendData(buffer, newData) == buffer \o newData

\* IComms::readBytes(numBytes, timeoutMs) when avail bytes are at hand
readBytes(avail, numBytes) == substr(avail, 0, numBytes)

(***************************************************************************)
(* Byte streams the peer sends.                                            *)
(***************************************************************************)
MaxPieces == 2
MaxReadsPerCall == 3

\* '$' body '*' HH CRLF with HH the checksum of body, in upper-case hex
HexDigit(n) == IF n < 10 THEN Ord("0") + n ELSE Ord("A") + (n - 10)

Frame(body) ==
    LET sum == XorRange(body, 0, Len(body))
    IN  <<Ord("$")>> \o body \o <<Ord("*"), HexDigit(sum \div 16), HexDigit(sum % 16)>>
        \o CRLF

Valid1 == Frame(Str(<<"G", "P", "G", "S", "V", ",", "1", ",", "1", ",", "1">>))
Valid2 == Frame(Str(<<"G", "P", "G", "S", "V", ",", "2", ",", "1", ",", "3">>))
BadSum == Str(<<"$", "A", "*", "0", "0">>) \o CRLF
Unsupported == Frame(Str(<<"A">>))
NoStar == Str(<<"$", "A">>) \o CRLF
Truncated == Str(<<"$", "G">>)
Garbage == Str(<<"x", "\r">>)
TooFew == Frame(Str(<<"G", "P", "G", "S", "V", ",", "1">>))
NonNumeric == Frame(Str(<<"G", "P", "G", "S", "V", ",", "x", ",", "1", ",", "1">>))
SixFieldGPGLL == Frame(Str(<<"G", "P", "G", "L", "L", ",", ",", ",", ",", ",", "x">>))

Pieces ==
    {Valid1, Valid2, BadSum, Unsupported, NoStar, Truncated, Garbage, TooFew, NonNumeric,
     SixFieldGPGLL}

RECURSIVE Concat(_)
Concat(ps) == IF ps = <<>> THEN <<>> ELSE Head(ps) \o Concat(Tail(ps))

Streams == {Concat(ps) : ps \in UNION {[1..n -> Pieces] : n \in 1..MaxPieces}}

(***************************************************************************)
(* State.                                                                  *)
(***************************************************************************)
VARIABLES
    stream,         \* the bytes the peer sends, in order
    pos,            \* how many of them the transport has delivered
    isOpen,         \* IComms::isOpen()
    receiveBuffer,  \* NMEAReader::_receiveBuffer
    pc,             \* where readAndParseSentence stands: "idle" between calls
    ret,            \* what the last call returned
    lastRead,       \* how the last readBytes of the call ended
    readsInCall,    \* the readBytes calls of the current call
    nthCall,        \* "none" before the first call, "first" in and after it, then "later"
    extracted,      \* the sentences extractCompleteSentence has returned
    returned,       \* the messages readAndParseSentence has returned
    input,          \* the sentence handed to NMEAParser::parseSentence
    applied,        \* how far parseSentence has come with it
    checksumOk,     \* what validateChecksum returned
    tokens,         \* what tokenize returned
    decoded,        \* what parseSentence returned
    twin,           \* a second NMEAReader, given the same reads when twin.on
    comms,          \* a Comms object: backend, framing, sock
    wire,           \* the bytes that have arrived for the Comms socket, in order
    rxPos,          \* how many of them recv has handed out
    peer,           \* the connection of the Comms socket: "open", "closed" by the peer, "failed"
    out,            \* the bytes send has accepted from the Comms object
    sentMsgs,       \* the messages given to sendMessage, in order
    rx,             \* where receiveMessage stands, and its locals
    result,         \* how the last receiveMessage ended
    frames,         \* the frames receiveMessage has returned, in order
    net,            \* a NetworkComms object: _socket, _isOpen, _protocol
    netAvail,       \* the bytes that have arrived for its socket and are unread
    netPeer,        \* "open", or "closed" once its peer has closed
    netLast         \* the last operation on it and what it returned

commsVars == <<comms, wire, rxPos, peer, out, sentMsgs, rx, result, frames>>

netVars == <<net, netAvail, netPeer, netLast>>

readerVars == <<stream, pos, isOpen, receiveBuffer, pc, ret, lastRead, readsInCall,
                nthCall, extracted, returned>>

parserVars == <<input, applied, checksumOk, tokens, decoded>>

vars == <<readerVars, parserVars, twin, commsVars, netVars>>

NoResult == [kind |-> "none", type |-> "", members |-> <<>>]
NullOptResult == [kind |-> "nullopt", type |-> "", members |-> <<>>]

\* #define INVALID_SOCKET (-1)
INVALID_SOCKET == -1

\* Comms::Comms(backend, framing) : backend(backend), framing(framing),
\* sock(INVALID_SOCKET)
Comms(backend, framing) ==
    [backend |-> backend, framing |-> framing, sock |-> INVALID_SOCKET]

\* No receiveMessage is running.
RxIdle ==
    [pc |-> "idle", buffer |-> <<>>, lenMem |-> <<0, 0, 0, 0>>, total |-> 0,
     start |-> 0, recvs |-> 0, failed |-> FALSE]

\* No receiveMessage has ended yet.
NoFrame == [kind |-> "none", size |-> [hi |-> 0, lo |-> 0], data |-> <<>>, what |-> ""]

\* The Comms object c right after construction, nothing sent or arrived.
CommsFresh(c) ==
    /\ comms = c
    /\ wire = <<>> /\ rxPos = 0 /\ peer = "open"
    /\ out = <<>> /\ sentMsgs = <<>>
    /\ rx = RxIdle /\ result = NoFrame /\ frames = <<>>

CommsUnused == CommsFresh(Comms("BSD", "None"))

\* NetworkComms::NetworkComms() : _isOpen(false), _protocol(Protocol::TCP),
\* _socket = -1
NetworkComms == [socket |-> -1, isOpen |-> FALSE, protocol |-> "TCP"]

\* No operation on the NetworkComms object has been called yet.
NoOp == [op |-> "none", ret |-> FALSE, data |-> <<>>, numBytes |-> 0, syscalls |-> 0,
         before |-> NetworkComms, atHand |-> <<>>, failed |-> FALSE]

NetFresh == net = NetworkComms /\ netAvail = <<>> /\ netPeer = "open" /\ netLast = NoOp

NetUnused == NetFresh

\* No result of the parser is at hand.
ParserUnused ==
    /\ applied = "none"
    /\ checksumOk = FALSE
    /\ tokens = <<>>
    /\ decoded = NoResult

\* The second reader after construction.  When on holds it is given the reads
\* of the first; when whole holds it reads the stream by itself, all that is
\* left of it in each read, pos telling how much it has been given.
FreshTwin(on) ==
    [on |-> on, whole |-> FALSE, pos |-> 0,
     receiveBuffer |-> <<>>, pc |-> "idle", ret |-> NoResult, returned |-> <<>>]

\* The second reader enters readAndParseSentence.
TwinCall(tw) ==
    IF tw.on /\ tw.pc = "idle" THEN [tw EXCEPT !.pc = "extract", !.ret = NoResult] ELSE tw

\* The second reader after parse of an extracted sentence ended with r.
TwinParsed(tw, buffer, r) ==
    [tw EXCEPT !.receiveBuffer = buffer,
               !.pc = CASE r.kind = "msg" -> "idle"
                        [] r.kind = "throw" -> "read"
                        [] r.kind = "crash" -> "crashed",
               !.ret = IF r.kind = "msg" THEN r ELSE @,
               !.returned = IF r.kind = "msg" THEN Append(@, r) ELSE @]

\* Step 1 of the loop in the second reader.
TwinExtract ==
    IF twin.on /\ twin.pc = "extract"
    THEN LET e == extractCompleteSentence(twin.receiveBuffer) IN
         IF e.has
         THEN \E r \in parse(e.sentence) : twin' = TwinParsed(twin, e.buffer, r)
         ELSE twin' = [twin EXCEPT !.receiveBuffer = e.buffer, !.pc = "read"]
    ELSE twin' = twin

\* Steps 2 and 3 in the second reader, readBytes returning newData.
TwinReceived(tw, newData) ==
    IF ~tw.on \/ tw.pc # "read" THEN tw
    ELSE IF newData = <<>>
    THEN [tw EXCEPT !.receiveBuffer = onEmptyRead(@), !.pc = "idle", !.ret = NullOptResult]
    ELSE [tw EXCEPT !.receiveBuffer = appendData(@, newData), !.pc = "extract"]

Fresh ==
    /\ pos = 0
    /\ isOpen = TRUE
    /\ receiveBuffer = <<>>
    /\ pc = "idle"
    /\ ret = NoResult
    /\ lastRead = "none"
    /\ readsInCall = 0
    /\ nthCall = "none"
    /\ extracted = <<>>
    /\ returned = <<>>

Init == stream \in Streams /\ Fresh /\ input = <<>> /\ ParserUnused /\ twin = FreshTwin(FALSE)
    /\ CommsUnused /\ NetUnused

\* Two fresh readers that are given the identical reads.
InitTwin == stream \in Streams /\ Fresh /\ input = <<>> /\ ParserUnused /\ twin = FreshTwin(TRUE)
    /\ CommsUnused /\ NetUnused

\* The caller polls: readAndParseSentence() is entered.
Call ==
    /\ pc = "idle"
    /\ pc' = "extract"
    /\ ret' = NoResult
    /\ lastRead' = "none"
    /\ readsInCall' = 0
    /\ nthCall' = IF nthCall = "none" THEN "first" ELSE "later"
    /\ twin' = TwinCall(twin)
    /\ UNCHANGED <<stream, pos, isOpen, receiveBuffer, extracted, returned>>
    /\ UNCHANGED <<parserVars, commsVars, netVars>>

\* Step 1 of the loop: extractCompleteSentence, then parse of what it found.
Extract ==
    /\ pc = "extract"
    /\ LET e == extractCompleteSentence(receiveBuffer) IN
       /\ receiveBuffer' = e.buffer
       /\ IF e.has
          THEN /\ extracted' = Append(extracted, e.sentence)
               /\ \E r \in parse(e.sentence) :
                     CASE r.kind = "msg" ->
                              /\ pc' = "idle"
                              /\ ret' = r
                              /\ returned' = Append(returned, r)
                       [] r.kind = "throw" ->
                              /\ pc' = "read"
                              /\ UNCHANGED <<ret, returned>>
                       [] r.kind = "crash" ->
                              /\ pc' = "crashed"
                              /\ UNCHANGED <<ret, returned>>
          ELSE /\ pc' = "read"
               /\ UNCHANGED <<ret, returned, extracted>>
    /\ TwinExtract
    /\ UNCHANGED <<stream, pos, isOpen, lastRead, readsInCall, nthCall>>
    /\ UNCHANGED <<parserVars, commsVars, netVars>>

\* Steps 2 and 3 when readBytes returns newData (not empty).
Received(newData, how) ==
    /\ receiveBuffer' = appendData(receiveBuffer, newData)
    /\ pc' = "extract"
    /\ lastRead' = how
    /\ readsInCall' = readsInCall + 1
    /\ twin' = TwinReceived(twin, newData)
    /\ UNCHANGED <<stream, ret, nthCall, extracted, returned>>
    /\ UNCHANGED <<parserVars, commsVars, netVars>>

\* Mutant of ReceivedNothing: with a partial sentence buffered the call keeps
\* trying instead of returning.
ReceivedNothing_retry(how) ==
    /\ receiveBuffer' = receiveBuffer
    /\ pc' = IF receiveBuffer = <<>> THEN "idle" ELSE "read"
    /\ ret' = IF receiveBuffer = <<>> THEN NullOptResult ELSE ret
    /\ lastRead' = how
    /\ readsInCall' = readsInCall + 1
    /\ twin' = TwinReceived(twin, <<>>)
    /\ UNCHANGED <<stream, nthCall, extracted, returned>>
    /\ UNCHANGED <<parserVars, commsVars, netVars>>

\* Step 2 when readBytes returns the empty string.
ReceivedNothing(how) ==
    /\ receiveBuffer' = onEmptyRead(receiveBuffer)
    /\ pc' = "idle"
    /\ ret' = NullOptResult
    /\ lastRead' = how
    /\ readsInCall' = readsInCall + 1
    /\ twin' = TwinReceived(twin, <<>>)
    /\ UNCHANGED <<stream, nthCall, extracted, returned>>
    /\ UNCHANGED <<parserVars, commsVars, netVars>>

\* readBytes delivers the next bytes of the stream; when they are fewer than
\* numBytes, the next recv of the same call may report the peer's close or an
\* error, which closes the transport and still returns the bytes read.
ReadData ==
    /\ pc = "read" /\ isOpen /\ readsInCall < MaxReadsPerCall
    /\ \E n \in 1..(Len(stream) - pos) :
          LET newData == readBytes(SubSeq(stream, pos + 1, pos + n), ReadSize) IN
          /\ pos' = pos + Len(newData)
          /\ \/ isOpen' = isOpen
             \/ Len(newData) < ReadSize /\ isOpen' = FALSE
          /\ Received(newData, "data")

\* select reports nothing within the timeout.
ReadTimeout ==
    /\ pc = "read" /\ isOpen
    /\ UNCHANGED <<pos, isOpen>>
    /\ ReceivedNothing("timeout")

\* select fails, or the first recv reports the peer's close or an error:
\* the transport closes itself and readBytes returns the empty string.
ReadClose ==
    /\ pc = "read" /\ isOpen
    /\ isOpen' = FALSE
    /\ UNCHANGED pos
    /\ ReceivedNothing("closed")

\* The transport is not open: readBytes returns the empty string at once.
ReadNotOpen ==
    /\ pc = "read" /\ ~isOpen
    /\ UNCHANGED <<pos, isOpen>>
    /\ ReceivedNothing("closed")

Next == Call \/ Extract \/ ReadData \/ ReadTimeout \/ ReadClose \/ ReadNotOpen

Spec == Init /\ [][Next]_vars

SpecTwin == InitTwin /\ [][Next]_vars

\* readBytes returns: each call of it ends, with bytes or without.
ReadReturns == ReadData \/ ReadTimeout \/ ReadClose \/ ReadNotOpen

\* The thread that is in readAndParseSentence runs on: a pending readBytes
\* returns and a pending extraction is made.  Extract is enabled exactly
\* while pc = "extract" and every step of it leaves that position, so its
\* weak fairness is []<>(pc # "extract").  Nothing makes the caller poll.
SpecLive == Init /\ [][Next]_vars /\ WF_vars(ReadReturns) /\ []<>(pc # "extract")

(***************************************************************************)
(* A byte source that delivers garbage only: no byte is '$'.               *)
(***************************************************************************)
GarbagePatterns == {Str(<<"x">>), CRLF, Str(<<"*", "4", "1", "\r">>)}

\* n bytes that repeat the pattern p
Repeat(p, n) == [i \in 1..n |-> p[((i - 1) % Len(p)) + 1]]

\* What the transport may hold when a read starts: up to one byte more than
\* one read takes.
GarbageAtHand == {Repeat(p, n) : p \in GarbagePatterns, n \in 1..(ReadSize + 1)}

ReadGarbage ==
    /\ pc = "read" /\ isOpen /\ readsInCall < MaxReadsPerCall
    /\ \E avail \in GarbageAtHand : Received(readBytes(avail, ReadSize), "data")
    /\ UNCHANGED <<pos, isOpen>>

InitGarbage == stream = <<>> /\ Fresh /\ input = <<>> /\ ParserUnused /\ twin = FreshTwin(FALSE)
    /\ CommsUnused /\ NetUnused

NextGarbage ==
    Call \/ Extract \/ ReadGarbage \/ ReadTimeout \/ ReadClose \/ ReadNotOpen

SpecGarbage == InitGarbage /\ [][NextGarbage]_vars

(***************************************************************************)
(* NMEAParser::parseSentence on its own: a sentence is handed to it and    *)
(* it validates, tokenizes and builds.                                     *)
(***************************************************************************)
MaxExtraFields == 1

\* The discriminators parseSentence knows, and one it does not know.
TypeBytes(t) ==
    CASE t = "GPRMC" -> Str(<<"G", "P", "R", "M", "C">>)
      [] t = "GPGGA" -> Str(<<"G", "P", "G", "G", "A">>)
      [] t = "GPGLL" -> Str(<<"G", "P", "G", "L", "L">>)
      [] t = "GPVTG" -> Str(<<"G", "P", "V", "T", "G">>)
      [] t = "GPGSA" -> Str(<<"G", "P", "G", "S", "A">>)
      [] t = "GPGSV" -> Str(<<"G", "P", "G", "S", "V">>)
      [] t = "GPXXX" -> Str(<<"G", "P", "X", "X", "X">>)

SupportedTypes == {"GPRMC", "GPGGA", "GPGLL", "GPVTG", "GPGSA", "GPGSV"}

\* fields.size() >= n of the branch of a type
MinFieldCount(t) ==
    CASE t = "GPRMC" -> 10 [] t = "GPGGA" -> 10 [] t = "GPGLL" -> 6
      [] t = "GPVTG" -> 8 [] t = "GPGSA" -> 17 [] t = "GPGSV" -> 4
      [] OTHER -> 1

RECURSIVE Join(_)
\* The fields with a ',' between them.
Join(fs) ==
    IF fs = <<>> THEN <<>>
    ELSE IF Len(fs) = 1 THEN fs[1]
    ELSE fs[1] \o <<Ord(",")>> \o Join(Tail(fs))

\* What a field after the discriminator may hold.
Fillers ==
    { <<>>, Str(<<"1">>), Str(<<"1", "x">>), Str(<<"x">>),
      Str(<<"4", "8", "0", "7", ".", "0", "3", "8">>) }

\* A body of n fields: the discriminator of type t and n - 1 fields f.
BodyOf(t, n, f) == Join(<<TypeBytes(t)>> \o [i \in 1..(n - 1) |-> f])

\* The body with one more field, a byte that brings the checksum to 0.
Padded(body) == body \o <<Ord(",")>> \o <<XorRange(body \o <<Ord(",")>>, 0, Len(body) + 1)>>

\* $GPGGA,123519,4807.038,N,01131.000,E,1,08,0.9,545.4,M,46.9,M,,*47
TextbookBody ==
    Join(<< TypeBytes("GPGGA"), Str(<<"1", "2", "3", "5", "1", "9">>),
            Str(<<"4", "8", "0", "7", ".", "0", "3", "8">>), Str(<<"N">>),
            Str(<<"0", "1", "1", "3", "1", ".", "0", "0", "0">>), Str(<<"E">>),
            Str(<<"1">>), Str(<<"0", "8">>), Str(<<"0", ".", "9">>),
            Str(<<"5", "4", "5", ".", "4">>), Str(<<"M">>),
            Str(<<"4", "6", ".", "9">>), Str(<<"M">>), <<>>, <<>> >>)

\* A position in the southern and western hemisphere, with a status.
SouthWestBody ==
    Join(<< TypeBytes("GPGLL"), Str(<<"3", "3", "5", "2", ".", "1", "2", "5">>), Str(<<"S">>),
            Str(<<"1", "5", "1", "1", "2", ".", "5", "0", "0">>), Str(<<"W">>),
            Str(<<"1", "2", "3", "5", "1", "9">>), Str(<<"A">>) >>)

\* The same position with the hemisphere letters in lower case.
LowerCaseDirBody ==
    Join(<< TypeBytes("GPGLL"), Str(<<"3", "3", "5", "2", ".", "1", "2", "5">>), <<115>>,
            Str(<<"1", "5", "1", "1", "2", ".", "5", "0", "0">>), <<119>>,
            Str(<<"1", "2", "3", "5", "1", "9">>), Str(<<"A">>) >>)

Bodies ==
    LET counts(t) == {MinFieldCount("GPXXX")} \cup
                     ((MinFieldCount(t) - 1)..(MinFieldCount(t) + MaxExtraFields))
        made == UNION { { BodyOf(t, n, f) : n \in counts(t), f \in Fillers } :
                        t \in SupportedTypes \cup {"GPXXX"} }
        given == { <<>>, Str(<<"A", ".", "4", "1">>), Str(<<"A", ",">>),
                   TextbookBody, SouthWestBody, LowerCaseDirBody }
    IN  made \cup {Padded(b) : b \in made} \cup given

LowerHexDigit(n) == IF n < 10 THEN Ord("0") + n ELSE Ord("a") + (n - 10)

\* What follows the body: the checksum in upper or lower case, a wrong one,
\* none, one digit only, two bytes that are no hexadecimal digits, a digit
\* and a byte that is none, and a checksum with bytes after it.
ChecksumSections(body) ==
    LET sum == XorRange(body, 0, Len(body))
        star == Ord("*")
    IN  { <<star, HexDigit(sum \div 16), HexDigit(sum % 16)>>,
          <<star, LowerHexDigit(sum \div 16), LowerHexDigit(sum % 16)>>,
          <<star, HexDigit(sum \div 16), HexDigit((sum + 1) % 16)>>,
          <<>>,
          <<star, HexDigit(sum % 16)>>,
          <<star, Ord("X"), Ord("X")>>,
          <<star, HexDigit(sum % 16), Ord("X")>>,
          <<star, HexDigit(sum \div 16), HexDigit(sum % 16), Ord("X")>> }

\* The sentences handed to parseSentence: with and without the '$'.
Sentences ==
    UNION { UNION { { <<Ord("$")>> \o b \o c, b \o c } : c \in ChecksumSections(b) } :
            b \in Bodies } \ {<<>>}

\* What a call of parseSentence can deliver: the read outside the field
\* vector is undefined, so the call may end the program ("crash") or deliver
\* the message with an indeterminate member.
Outcomes(r) ==
    IF r.kind = "ub"
    THEN {[kind |-> "crash", type |-> "", members |-> <<>>],
          [kind |-> "msg", type |-> r.type, members |-> r.members]}
    ELSE {r}

InitParser ==
    input \in Sentences /\ stream = <<>> /\ Fresh /\ ParserUnused /\ twin = FreshTwin(FALSE)
    /\ CommsUnused /\ NetUnused

\* if (!validateChecksum(sentence)) return std::nullopt;
Validate ==
    /\ applied = "none" /\ input # <<>>
    /\ checksumOk' = validateChecksum(input)
    /\ IF validateChecksum(input)
       THEN applied' = "validated" /\ decoded' = decoded
       ELSE applied' = "returned" /\ decoded' = NullOpt
    /\ UNCHANGED <<input, tokens>>
    /\ UNCHANGED <<readerVars, twin, commsVars, netVars>>

\* auto fields = tokenize(sentence); if (fields.empty()) return std::nullopt;
Tokenize ==
    /\ applied = "validated"
    /\ tokens' = tokenize(input)
    /\ IF tokenize(input) # <<>>
       THEN applied' = "tokenized" /\ decoded' = decoded
       ELSE applied' = "returned" /\ decoded' = NullOpt
    /\ UNCHANGED <<input, checksumOk>>
    /\ UNCHANGED <<readerVars, twin, commsVars, netVars>>

\* The branch of the discriminator builds the message, or nothing.
Build ==
    /\ applied = "tokenized"
    /\ decoded' \in Outcomes(parseSentence(input))
    /\ applied' = "returned"
    /\ UNCHANGED <<input, checksumOk, tokens>>
    /\ UNCHANGED <<readerVars, twin, commsVars, netVars>>

NextParser == Validate \/ Tokenize \/ Build

SpecParser == InitParser /\ [][NextParser]_vars

(***************************************************************************)
(* Comms: a TCP client that frames what it sends and receives.  One thread *)
(* uses the object, so its operations do not overlap.  The peer of a        *)
(* connection sends back every frame it is sent, or sends bytes of its own.*)
(***************************************************************************)
MaxSends == 2
MaxFrames == 2
MaxBody == 8

\* The messages the caller sends: empty, plain, a lone '\r', and one with a
\* line terminator inside.
Messages == {<<>>, Str(<<"A", "B">>), Str(<<"\r">>), Str(<<"\r", "\n", "A">>)}

\* What the peer sends of its own: half a header, a header whose body is cut
\* short, headers with the top bit set, and text with and without terminator.
PeerBytes ==
    {<<0, 0>>, <<0, 0, 0, 2>> \o Str(<<"A">>), <<128, 0, 0, 0>>, <<255, 255, 255, 255>>,
     Str(<<"A", "B">>), Str(<<"A", "\r">>), Str(<<"\n">>)}

\* enum class FramingStrategy
FramingStrategy == {"CRLF", "LengthPrefix", "Timeout", "None"}

\* The descriptor socket() returns.
SomeSocket == 3

\* Mutant of closeSocket: closing also falls back to the raw strategy.
closeSocket_reset(c) == [c EXCEPT !.sock = INVALID_SOCKET, !.framing = "None"]

\* if (sock != INVALID_SOCKET) { close(sock); sock = INVALID_SOCKET; }
closeSocket(c) ==
    IF c.sock # INVALID_SOCKET THEN [c EXCEPT !.sock = INVALID_SOCKET] ELSE c

\* connectToServer when socket(), inet_pton and connect end as how tells:
\* the object it leaves; every how but "ok" throws.
connectToServer(c, how) ==
    CASE how = "nosocket" -> [c EXCEPT !.sock = INVALID_SOCKET]
      [] how \in {"badaddr", "refused"} -> closeSocket([c EXCEPT !.sock = SomeSocket])
      [] how = "ok" -> [c EXCEPT !.sock = SomeSocket]

\* static_cast<uint32_t>(n): a 32-bit unsigned value, kept as two 16-bit halves
U32(n) == [hi |-> (n \div 65536) % 65536, lo |-> n % 65536]

\* The bytes of htonl(x) in memory order: most significant first.
htonl(x) == <<x.hi \div 256, x.hi % 256, x.lo \div 256, x.lo % 256>>

\* ntohl of the uint32_t whose bytes in memory order are mem
ntohl(mem) == [hi |-> mem[1] * 256 + mem[2], lo |-> mem[3] * 256 + mem[4]]

\* static_cast<int>(len): the same 32 bits read as two's complement
ToInt(len) == (IF len.hi >= 32768 THEN len.hi - 65536 ELSE len.hi) * 65536 + len.lo

\* uint32_t len = htonl(static_cast<uint32_t>(message.size())), as bytes
lengthPrefix(message) == htonl(U32(Len(message)))

\* Mutant of rawMessage: a raw message is sent with a line terminator.
rawMessage_terminated(message) == message \o CRLF

\* case Timeout: case None: break; -- no framing
rawMessage(message) == message

\* The bytes sendMessage hands to send for message under framing.
framedMessage(framing, message) ==
    CASE framing = "CRLF" -> message \o CRLF
      [] framing = "LengthPrefix" -> lengthPrefix(message) \o message
      [] OTHER -> rawMessage(message)

\* recv(sock, buf, n, 0) on a blocking socket with the bytes avail at hand:
\* what it may return.  It takes up to n of the bytes, reports the peer's
\* close (0) when none is left, or fails (-1), as it does from then on; with
\* no byte at hand and the peer still there it waits.
recv(sock, avail, state, n) ==
    IF sock = INVALID_SOCKET \/ state = "failed" THEN {[n |-> -1, data |-> <<>>]}
    ELSE {[n |-> k, data |-> SubSeq(avail, 1, k)] : k \in 1..Min(n, Len(avail))}
         \cup (IF avail = <<>> /\ state = "closed" THEN {[n |-> 0, data |-> <<>>]} ELSE {})
         \cup {[n |-> -1, data |-> <<>>]}

\* The connection after recv returned n: a failure stays.
connectionAfter(sock, state, n) == IF n < 0 /\ sock # INVALID_SOCKET THEN "failed" ELSE state

\* The bytes that have arrived and recv has not handed out.
Unread == SubSeq(wire, rxPos + 1, Len(wire))

\* The byte string s as a returned std::string: its size and its bytes.
StdString(s) == [size |-> U32(Len(s)), data |-> s]

\* Mutant of crlfStripped: only the '\n' is removed.
crlfStripped_keepCR(buffer) == SubSeq(buffer, 1, Len(buffer) - 1)

\* buffer.resize(buffer.size() - 2)
crlfStripped(buffer) == SubSeq(buffer, 1, Len(buffer) - 2)

\* buffer.size() >= 2 && buffer.substr(buffer.size() - 2) == "\r\n"
endsWithCRLF(buffer) ==
    Len(buffer) >= 2 /\ SubSeq(buffer, Len(buffer) - 1, Len(buffer)) = CRLF

\* char buffer[1024] of the raw receive
rawBufferSize == 1024

\* char temp[256] of receiveWithTimeout
tempSize == 256

\* Mutant of headerWant: every recv of the header asks for four bytes.
headerWant_four(total) == 4

\* recv(sock, lenPtr + total, 4 - total, 0): the bytes asked for
headerWant(total) == 4 - total

\* recv(sock, &buffer[total], len - total, 0): the bytes asked for; the
\* loop is entered with 0 <= total < static_cast<int>(len)
bodyWant(len, total) == ToInt(len) - total

\* receiveMessage returns the std::string f.
Return(f) ==
    /\ result' = [kind |-> "frame", size |-> f.size, data |-> f.data, what |-> ""]
    /\ frames' = Append(frames, f)

\* receiveMessage throws: what tells the message of the exception.
Throw(what) ==
    /\ result' = [kind |-> "error", size |-> U32(0), data |-> <<>>, what |-> what]
    /\ frames' = frames

\* The traffic of a connection precedes the receiving: no receiveMessage was
\* called on it yet.
Quiet == rx = RxIdle /\ result = NoFrame

\* connectToServer(ip, port) is called.  A connection that is made starts
\* with nothing sent and nothing arrived.
ConnectToServer ==
    /\ rx.pc = "idle"
    /\ \E how \in {"nosocket", "badaddr", "refused", "ok"} :
          /\ comms' = connectToServer(comms, how)
          /\ IF how = "ok"
             THEN /\ wire' = <<>> /\ rxPos' = 0 /\ peer' = "open"
                  /\ out' = <<>> /\ sentMsgs' = <<>> /\ frames' = <<>>
                  /\ rx' = RxIdle /\ result' = NoFrame
             ELSE UNCHANGED <<wire, rxPos, peer, out, sentMsgs, frames, rx, result>>
    /\ UNCHANGED <<readerVars, parserVars, twin, netVars>>

\* sendMessage(message): send accepts the framed message whole, or fails and
\* sendMessage throws.  What a connected socket accepts comes back from a
\* peer that sends nothing of its own, while that peer is there.
SendMessage ==
    /\ rx.pc = "idle" /\ Quiet /\ wire = out
    /\ Len(sentMsgs) < MaxSends
    /\ \E message \in Messages :
       \E n \in {-1, Len(framedMessage(comms.framing, message))} :
          IF n = -1 \/ comms.sock = INVALID_SOCKET
          THEN UNCHANGED <<out, sentMsgs, wire>>
          ELSE /\ out' = out \o framedMessage(comms.framing, message)
               /\ sentMsgs' = Append(sentMsgs, message)
               /\ wire' = IF peer # "open" THEN wire
                          ELSE wire \o framedMessage(comms.framing, message)
    /\ UNCHANGED <<comms, rxPos, peer, rx, result, frames>>
    /\ UNCHANGED <<readerVars, parserVars, twin, netVars>>

\* Bytes of the peer's own arrive, the first of a connection.
PeerSends ==
    /\ comms.sock # INVALID_SOCKET /\ peer = "open" /\ Quiet /\ wire = <<>>
    /\ \E b \in PeerBytes : wire' = wire \o b
    /\ UNCHANGED <<comms, rxPos, peer, out, sentMsgs, rx, result, frames>>
    /\ UNCHANGED <<readerVars, parserVars, twin, netVars>>

\* The peer closes its side of the connection.
PeerCloses ==
    /\ comms.sock # INVALID_SOCKET /\ peer = "open"
    /\ peer' = "closed"
    /\ UNCHANGED <<comms, wire, rxPos, out, sentMsgs, rx, result, frames>>
    /\ UNCHANGED <<readerVars, parserVars, twin, netVars>>

\* receiveMessage() is entered: switch (framing).
ReceiveMessage ==
    /\ rx.pc = "idle" /\ Len(frames) < MaxFrames
    /\ rx' = [RxIdle EXCEPT !.pc = CASE comms.framing = "CRLF" -> "crlf"
                                     [] comms.framing = "LengthPrefix" -> "header"
                                     [] comms.framing = "Timeout" -> "select"
                                     [] comms.framing = "None" -> "raw",
                            !.start = rxPos]
    /\ result' = NoFrame
    /\ UNCHANGED <<comms, wire, rxPos, peer, out, sentMsgs, frames>>
    /\ UNCHANGED <<readerVars, parserVars, twin, netVars>>

\* case FramingStrategy::None: one recv into char buffer[1024].
RecvRaw ==
    /\ rx.pc = "raw"
    /\ \E r \in recv(comms.sock, Unread, peer, rawBufferSize) :
          /\ rxPos' = rxPos + Len(r.data)
          /\ peer' = connectionAfter(comms.sock, peer, r.n)
          /\ rx' = [rx EXCEPT !.pc = "idle", !.recvs = @ + 1, !.failed = r.n <= 0]
          /\ IF r.n <= 0
             THEN Throw("Connection closed or error receiving data")
             ELSE Return(StdString(r.data))
    /\ UNCHANGED <<comms, wire, out, sentMsgs>>
    /\ UNCHANGED <<readerVars, parserVars, twin, netVars>>

\* One turn of the loop of receiveUntilCRLF: recv of one byte.
RecvUntilCRLF ==
    /\ rx.pc = "crlf"
    /\ \E r \in recv(comms.sock, Unread, peer, 1) :
          /\ rxPos' = rxPos + Len(r.data)
          /\ peer' = connectionAfter(comms.sock, peer, r.n)
          /\ IF r.n <= 0
             THEN /\ rx' = [rx EXCEPT !.pc = "idle", !.recvs = @ + 1, !.failed = TRUE]
                  /\ Return(StdString(rx.buffer))
             ELSE IF endsWithCRLF(rx.buffer \o r.data)
             THEN /\ rx' = [rx EXCEPT !.pc = "idle", !.recvs = @ + 1,
                                      !.buffer = crlfStripped(rx.buffer \o r.data)]
                  /\ Return(StdString(crlfStripped(rx.buffer \o r.data)))
             ELSE /\ rx' = [rx EXCEPT !.recvs = @ + 1, !.buffer = rx.buffer \o r.data]
                  /\ UNCHANGED <<result, frames>>
    /\ UNCHANGED <<comms, wire, out, sentMsgs>>
    /\ UNCHANGED <<readerVars, parserVars, twin, netVars>>

\* mem with the bytes data written from offset total on
Written(mem, total, data) ==
    [i \in 1..4 |-> IF i > total /\ i <= total + Len(data) THEN data[i - total] ELSE mem[i]]

\* One turn of the first loop of receiveWithLengthPrefix: recv into the
\* bytes of len that are still missing.
RecvLength ==
    /\ rx.pc = "header"
    /\ \E r \in recv(comms.sock, Unread, peer, headerWant(rx.total)) :
          /\ rxPos' = rxPos + Len(r.data)
          /\ peer' = connectionAfter(comms.sock, peer, r.n)
          /\ IF r.n <= 0
             THEN /\ rx' = [rx EXCEPT !.pc = "idle", !.recvs = @ + 1, !.failed = TRUE]
                  /\ Throw("Failed to receive message length")
             ELSE /\ rx' = [rx EXCEPT !.recvs = @ + 1,
                                      !.lenMem = Written(@, rx.total, r.data),
                                      !.total = @ + r.n,
                                      !.pc = IF rx.total + r.n < 4 THEN "header" ELSE "alloc"]
                  /\ UNCHANGED <<result, frames>>
    /\ UNCHANGED <<comms, wire, out, sentMsgs>>
    /\ UNCHANGED <<readerVars, parserVars, twin, netVars>>

\* The storage a std::string of the length len needs is there for bodies of
\* up to MaxBody bytes; for longer ones the allocation may fail.
mayFail(len) == ToInt(len) < 0 \/ ToInt(len) > MaxBody

\* len = ntohl(len); std::string buffer(len, 0); total = 0; and the test of
\* the second loop, total < static_cast<int>(len), before its first turn.
Allocate ==
    /\ rx.pc = "alloc"
    /\ LET len == ntohl(rx.lenMem) IN
       \/ /\ mayFail(len)
          /\ rx' = [rx EXCEPT !.pc = "idle", !.total = 0]
          /\ Throw("std::bad_alloc")
       \/ IF 0 < ToInt(len)
          THEN /\ rx' = [rx EXCEPT !.pc = "body", !.total = 0]
               /\ UNCHANGED <<result, frames>>
          ELSE /\ rx' = [rx EXCEPT !.pc = "idle", !.total = 0]
               /\ Return([size |-> len, data |-> <<>>])
    /\ UNCHANGED <<comms, wire, rxPos, peer, out, sentMsgs>>
    /\ UNCHANGED <<readerVars, parserVars, twin, netVars>>

\* One turn of the second loop of receiveWithLengthPrefix.
RecvBody ==
    /\ rx.pc = "body"
    /\ LET len == ntohl(rx.lenMem) IN
       \E r \in recv(comms.sock, Unread, peer, bodyWant(len, rx.total)) :
          /\ rxPos' = rxPos + Len(r.data)
          /\ peer' = connectionAfter(comms.sock, peer, r.n)
          /\ IF r.n <= 0
             THEN /\ rx' = [rx EXCEPT !.pc = "idle", !.recvs = @ + 1, !.failed = TRUE]
                  /\ Throw("Failed to receive message body")
             ELSE IF rx.total + r.n < ToInt(len)
             THEN /\ rx' = [rx EXCEPT !.recvs = @ + 1, !.buffer = @ \o r.data,
                                      !.total = @ + r.n]
                  /\ UNCHANGED <<result, frames>>
             ELSE /\ rx' = [rx EXCEPT !.pc = "idle", !.recvs = @ + 1,
                                      !.buffer = @ \o r.data, !.total = @ + r.n]
                  /\ Return([size |-> len, data |-> rx.buffer \o r.data])
    /\ UNCHANGED <<comms, wire, out, sentMsgs>>
    /\ UNCHANGED <<readerVars, parserVars, twin, netVars>>

\* select(sock + 1, &fds, nullptr, nullptr, &timeout) of receiveWithTimeout
\* returns 0 after 30 ms without data, or -1: the loop ends and the buffer is
\* returned.  FD_SET with the descriptor -1 is undefined: the call may as
\* well end the program.
SelectNothing ==
    /\ rx.pc = "select"
    /\ \/ \E selected \in {0, -1} :
             /\ comms.sock = INVALID_SOCKET => selected = -1
             /\ rx' = [rx EXCEPT !.pc = "idle", !.failed = selected < 0]
             /\ Return(StdString(rx.buffer))
       \/ /\ comms.sock = INVALID_SOCKET
          /\ rx' = [rx EXCEPT !.pc = "crashed"]
          /\ result' = [kind |-> "crash", size |-> U32(0), data |-> <<>>, what |-> ""]
          /\ frames' = frames
    /\ UNCHANGED <<comms, wire, rxPos, peer, out, sentMsgs>>
    /\ UNCHANGED <<readerVars, parserVars, twin, netVars>>

\* select reports the socket readable and recv into char temp[256] follows.
RecvWithTimeout ==
    /\ rx.pc = "select" /\ comms.sock # INVALID_SOCKET
    /\ Unread # <<>> \/ peer # "open"
    /\ \E r \in recv(comms.sock, Unread, peer, tempSize) :
          /\ rxPos' = rxPos + Len(r.data)
          /\ peer' = connectionAfter(comms.sock, peer, r.n)
          /\ IF r.n <= 0
             THEN /\ rx' = [rx EXCEPT !.pc = "idle", !.recvs = @ + 1, !.failed = TRUE]
                  /\ Return(StdString(rx.buffer))
             ELSE /\ rx' = [rx EXCEPT !.recvs = @ + 1, !.buffer = @ \o r.data]
                  /\ UNCHANGED <<result, frames>>
    /\ UNCHANGED <<comms, wire, out, sentMsgs>>
    /\ UNCHANGED <<readerVars, parserVars, twin, netVars>>

InitComms ==
    /\ \E framing \in FramingStrategy : CommsFresh(Comms("BSD", framing))
    /\ stream = <<>> /\ Fresh /\ input = <<>> /\ ParserUnused /\ twin = FreshTwin(FALSE)
    /\ NetUnused

NextComms ==
    \/ ConnectToServer \/ SendMessage \/ PeerSends \/ PeerCloses \/ ReceiveMessage
    \/ RecvRaw \/ RecvUntilCRLF \/ RecvLength \/ Allocate \/ RecvBody
    \/ SelectNothing \/ RecvWithTimeout

SpecComms == InitComms /\ [][NextComms]_vars

(***************************************************************************)
(* NetworkComms: the transport behind IComms.  Each operation is one step; *)
(* bytes arrive and the peer closes between operations.                    *)
(***************************************************************************)
MaxAtHand == 3
MaxCandidates == 2

\* The descriptor socket() returns for an address.
NetSocket == 4

\* Mutant of close: the flag is cleared and the descriptor is kept.
close_keepSocket(n) == IF n.isOpen THEN [n EXCEPT !.isOpen = FALSE] ELSE n

\* if (_isOpen) { ::close(_socket); _socket = -1; _isOpen = false; }
close(n) == IF n.isOpen THEN [n EXCEPT !.socket = -1, !.isOpen = FALSE] ELSE n

RECURSIVE tryAddresses(_, _)
\* The loop over the addresses getaddrinfo returned: socket() and, for TCP,
\* ::connect end for each as cands tells; the first that succeeds is kept.
tryAddresses(n, cands) ==
    IF cands = <<>> THEN n
    ELSE IF Head(cands) = "nosocket"
    THEN tryAddresses([n EXCEPT !.socket = -1], Tail(cands))
    ELSE IF Head(cands) = "refused" /\ n.protocol = "TCP"
    THEN tryAddresses([n EXCEPT !.socket = -1], Tail(cands))
    ELSE [n EXCEPT !.socket = NetSocket, !.isOpen = TRUE]

\* connect(host, port, protocol): the object it leaves and what it returns.
\* resolved tells whether getaddrinfo succeeded, cands how the addresses do,
\* nonBlocking whether fcntl set O_NONBLOCK.
connect(n, protocol, resolved, cands, nonBlocking) ==
    IF n.isOpen THEN [net |-> n, ret |-> FALSE]
    ELSE IF ~resolved THEN [net |-> [n EXCEPT !.protocol = protocol], ret |-> FALSE]
    ELSE LET tried == tryAddresses([n EXCEPT !.protocol = protocol], cands) IN
         IF ~tried.isOpen THEN [net |-> tried, ret |-> FALSE]
         ELSE IF ~nonBlocking THEN [net |-> close(tried), ret |-> FALSE]
         ELSE [net |-> tried, ret |-> TRUE]

\* What select may return for the socket: -1, 0 after the timeout with
\* nothing to read, 1 when bytes are at hand or the peer has closed.
select(atHand, peerState) ==
    {-1} \cup (IF atHand = <<>> /\ peerState = "open" THEN {0} ELSE {1})

\* The loop of readBytes, one recv of one byte per turn: the bytes it has
\* collected when it ends and why it ends.  It ends with numBytes bytes
\* ("full"), when recv finds nothing at hand ("wouldblock"), when recv
\* reports the peer's close ("peerclose"), or when recv fails ("error").
recvLoop(atHand, peerState, numBytes) ==
    {[data |-> SubSeq(atHand, 1, k), why |-> "error"] :
        k \in 0..Min(numBytes - 1, Len(atHand))}
    \cup (IF Len(atHand) >= numBytes
          THEN {[data |-> SubSeq(atHand, 1, numBytes), why |-> "full"]}
          ELSE {[data |-> atHand,
                 why |-> IF peerState = "open" THEN "wouldblock" ELSE "peerclose"]})

\* close() when recv returned 0 or failed with something else than EAGAIN
afterRecv(n, why) == IF why \in {"peerclose", "error"} THEN close(n) ELSE n

\* connect(host, port, protocol) is called.
Connect ==
    /\ \E protocol \in {"TCP", "UDP"}, resolved \in BOOLEAN, nonBlocking \in BOOLEAN :
       \E cands \in UNION {[1..k -> {"nosocket", "refused", "ok"}] : k \in 1..MaxCandidates} :
          LET c == connect(net, protocol, resolved, cands, nonBlocking) IN
          /\ net' = c.net
          /\ netLast' = [NoOp EXCEPT !.op = "connect", !.ret = c.ret, !.before = net,
                                     !.atHand = netAvail]
          /\ IF c.ret THEN netAvail' = <<>> /\ netPeer' = "open"
             ELSE UNCHANGED <<netAvail, netPeer>>
    /\ UNCHANGED <<readerVars, parserVars, twin, commsVars>>

\* close() is called.
Close ==
    /\ net' = close(net)
    /\ netLast' = [NoOp EXCEPT !.op = "close", !.before = net, !.atHand = netAvail,
                               !.syscalls = IF net.isOpen THEN 1 ELSE 0]
    /\ UNCHANGED <<netAvail, netPeer>>
    /\ UNCHANGED <<readerVars, parserVars, twin, commsVars>>

\* readBytes(numBytes, timeoutMs) is called.
ReadBytes ==
    /\ \E numBytes \in {0, 1, 2, ReadSize} :
          IF ~net.isOpen
          THEN /\ netLast' = [NoOp EXCEPT !.op = "readBytes", !.numBytes = numBytes,
                                          !.before = net, !.atHand = netAvail]
               /\ UNCHANGED <<net, netAvail>>
          ELSE \E selectResult \in select(netAvail, netPeer) :
               IF selectResult = -1
               THEN /\ net' = close(net)
                    /\ netLast' = [NoOp EXCEPT !.op = "readBytes", !.numBytes = numBytes,
                                               !.before = net, !.atHand = netAvail,
                                               !.syscalls = 2, !.failed = TRUE]
                    /\ UNCHANGED netAvail
               ELSE IF selectResult = 0
               THEN /\ netLast' = [NoOp EXCEPT !.op = "readBytes", !.numBytes = numBytes,
                                               !.before = net, !.atHand = netAvail,
                                               !.syscalls = 1]
                    /\ UNCHANGED <<net, netAvail>>
               ELSE \E r \in recvLoop(netAvail, netPeer, numBytes) :
                    /\ net' = afterRecv(net, r.why)
                    /\ netAvail' = SubSeq(netAvail, Len(r.data) + 1, Len(netAvail))
                    /\ netLast' = [NoOp EXCEPT !.op = "readBytes", !.numBytes = numBytes,
                                               !.before = net, !.atHand = netAvail,
                                               !.data = r.data,
                                               !.syscalls = 1 + Len(r.data)
                                                   + (IF r.why = "full" THEN 0 ELSE 1)
                                                   + (IF r.why \in {"peerclose", "error"}
                                                      THEN 1 ELSE 0),
                                               !.failed = r.why \in {"peerclose", "error"}]
    /\ UNCHANGED netPeer
    /\ UNCHANGED <<readerVars, parserVars, twin, commsVars>>

\* A byte arrives for the open socket.
NetArrives ==
    /\ net.isOpen /\ netPeer = "open" /\ Len(netAvail) < MaxAtHand
    /\ \E b \in {Ord("A"), Ord("B")} : netAvail' = Append(netAvail, b)
    /\ UNCHANGED <<net, netPeer, netLast>>
    /\ UNCHANGED <<readerVars, parserVars, twin, commsVars>>

\* The peer closes the connection.
NetPeerCloses ==
    /\ net.isOpen /\ netPeer = "open"
    /\ netPeer' = "closed"
    /\ UNCHANGED <<net, netAvail, netLast>>
    /\ UNCHANGED <<readerVars, parserVars, twin, commsVars>>

InitNetwork ==
    /\ NetFresh
    /\ stream = <<>> /\ Fresh /\ input = <<>> /\ ParserUnused /\ twin = FreshTwin(FALSE)
    /\ CommsUnused

NextNetwork == Connect \/ Close \/ ReadBytes \/ NetArrives \/ NetPeerCloses

SpecNetwork == InitNetwork /\ [][NextNetwork]_vars

(***************************************************************************)
(* Notions the properties are stated with.                                 *)
(***************************************************************************)
IsCRLFAt(s, j) == j >= 1 /\ j < Len(s) /\ s[j] = 13 /\ s[j + 1] = 10

\* s holds a '$' that a CRLF follows: a complete sentence is at hand.
HasCompleteSentence(s) ==
    \E i \in 1..Len(s) : s[i] = 36 /\ \E j \in (i + 1)..Len(s) : IsCRLFAt(s, j)

\* s is the beginning of a frame: a '$' and bytes after it, no CRLF yet.
IsPartialFrame(s) ==
    /\ s # <<>> /\ s[1] = 36
    /\ \A j \in 1..Len(s) : ~IsCRLFAt(s, j)

\* f is one frame: '$', a body without CRLF, then CRLF.
IsFrame(f) ==
    /\ Len(f) >= 3 /\ f[1] = 36 /\ IsCRLFAt(f, Len(f) - 1)
    /\ \A j \in 1..(Len(f) - 2) : ~IsCRLFAt(f, j)

\* The frame without its terminator.
Body(f) == SubSeq(f, 1, Len(f) - 2)

\* f is a complete valid frame: its sentence decodes to a message.
IsValidFrame(f) == IsFrame(f) /\ parseSentence(Body(f)).kind = "msg"

\* The position of the first CRLF of s at or after position i (1-based), or 0.
NextCRLF(s, i) ==
    IF \E j \in i..Len(s) : IsCRLFAt(s, j)
    THEN CHOOSE j \in i..Len(s) : IsCRLFAt(s, j) /\ \A k \in i..(j - 1) : ~IsCRLFAt(s, k)
    ELSE 0

RECURSIVE ValidFramesFrom(_, _)
\* The messages of the complete valid frames of s from position i on, in
\* stream order: a frame starts at a '$' and ends at the next CRLF.
ValidFramesFrom(s, i) ==
    IF i > Len(s) THEN <<>>
    ELSE IF s[i] = 36 /\ NextCRLF(s, i) # 0
              /\ IsValidFrame(SubSeq(s, i, NextCRLF(s, i) + 1))
    THEN <<parseSentence(SubSeq(s, i, NextCRLF(s, i) - 1))>>
         \o ValidFramesFrom(s, NextCRLF(s, i) + 2)
    ELSE ValidFramesFrom(s, i + 1)

IsPrefix(a, b) == Len(a) <= Len(b) /\ SubSeq(b, 1, Len(a)) = a

\* Every byte of the stream was delivered and a poll found nothing to return
\* with no complete sentence left in the buffer.
Exhausted ==
    /\ pc = "idle" /\ pos = Len(stream) /\ ret.kind = "nullopt"
    /\ ~HasCompleteSentence(receiveBuffer)

(***************************************************************************)
(* Properties.                                                             *)
(***************************************************************************)
\* C1: for every stream, chunking and placement of timed-out reads, the
\* messages returned by the calls are exactly the messages of the complete
\* valid frames of the stream, in stream order, none skipped and none twice.
C1_ExactlyTheValidFrames ==
    /\ IsPrefix(returned, ValidFramesFrom(stream, 1))
    /\ Exhausted => returned = ValidFramesFrom(stream, 1)

\* C2: a valid frame delivered to a fresh reader in several reads, split at
\* any byte, yields no sentence before its last byte has arrived, and then
\* exactly one sentence, the frame without its terminator.
C2_SplitFrameYieldsOneSentence ==
    IsValidFrame(stream) =>
        /\ pos < Len(stream) => extracted = <<>>
        /\ Len(extracted) <= 1
        /\ (pos = Len(stream) /\ pc # "extract") => extracted = <<Body(stream)>>

\* C2 witness: a valid frame arrived in the two reads of the first call of a
\* fresh reader and the one sentence was extracted.
C2_Witness ==
    /\ IsValidFrame(stream) /\ pos = Len(stream)
    /\ nthCall = "first" /\ readsInCall = 2 /\ lastRead = "data"
    /\ extracted = <<Body(stream)>>

\* C3: a call returns "no message" only when the buffer holds no complete
\* '$'...CRLF sentence: after a frame that fails to decode, the call goes back
\* to extraction of the buffered bytes before it returns.
C3_NullOptOnlyWithoutSentence ==
    (pc = "idle" /\ ret.kind = "nullopt") => ~HasCompleteSentence(receiveBuffer)

\* C4 as stated: a call performs at most one transport read.
C4_AtMostOneRead == readsInCall <= 1

\* C4 as amended: a call performs at most one read that returns no bytes and
\* returns "no message" right after it; while the call runs, every read it
\* has made returned bytes.
C4_ReturnsAtFirstEmptyRead ==
    /\ lastRead \in {"timeout", "closed"} => (pc = "idle" /\ ret.kind = "nullopt")
    /\ (pc \in {"extract", "read"} /\ readsInCall > 0) => lastRead = "data"
    /\ (pc = "idle" /\ ret.kind = "nullopt") => lastRead \in {"timeout", "closed"}

\* C4 witness: a call read bytes twice, then returned at its first empty read.
C4_Witness ==
    pc = "idle" /\ readsInCall = 3 /\ lastRead = "timeout" /\ ret.kind = "nullopt"

\* C5: a closed transport is reported as a hard failure, never as the
\* "no message" of a timed-out read.
C5_ClosedIsNotNoMessage ==
    (pc = "idle" /\ lastRead = "closed") => ret.kind # "nullopt"

\* C6: a read that times out while the buffer holds a partial frame ends the
\* call with "no message" and leaves the buffer as it was, as does the
\* extraction of the next call; when the rest of the frame has arrived the
\* message is the one the whole frame decodes to.
C6_PartialFrameSurvivesTimeout ==
    /\ [][(pc = "read" /\ IsPartialFrame(receiveBuffer) /\ lastRead' = "timeout")
             => (pc' = "idle" /\ ret'.kind = "nullopt" /\ receiveBuffer' = receiveBuffer)]_vars
    /\ [][(pc \in {"idle", "extract"} /\ IsPartialFrame(receiveBuffer))
             => receiveBuffer' = receiveBuffer]_vars
    /\ []((IsValidFrame(stream) /\ pos = Len(stream) /\ pc # "extract")
             => returned = <<parseSentence(Body(stream))>>)

\* C6 witness: the only read of a call timed out with a partial frame in the
\* buffer; the call returned "no message" and the partial frame is still there.
C6_Witness ==
    /\ pc = "idle" /\ lastRead = "timeout" /\ readsInCall = 1 /\ ret.kind = "nullopt"
    /\ IsPartialFrame(receiveBuffer) /\ Len(receiveBuffer) > 1
    /\ IsValidFrame(stream)

\* The position (1-based) of the first '$' of s, or 0.
FirstDollar(s) ==
    IF \E i \in 1..Len(s) : s[i] = 36
    THEN CHOOSE i \in 1..Len(s) : s[i] = 36 /\ \A j \in 1..(i - 1) : s[j] # 36
    ELSE 0

\* s has a '*' with at least two bytes after the first one.
HasChecksumSection(s) ==
    \E i \in 1..Len(s) : s[i] = 42 /\ (\A j \in 1..(i - 1) : s[j] # 42) /\ i + 2 <= Len(s)

\* What one extraction may do to buffer b: with no '$' the buffer is emptied
\* and no sentence yielded; else the bytes before the first '$' go, and if a
\* CRLF follows the '$' the bytes from '$' to that CRLF go as well and are the
\* sentence yielded (without the CRLF), which is yielded whenever it has a
\* checksum section.
ExtractionOf(b, after, yielded) ==
    LET d == FirstDollar(b)
        e == IF d = 0 THEN 0 ELSE NextCRLF(b, d)
    IN  IF d = 0 THEN after = <<>> /\ yielded = <<>>
        ELSE IF e = 0 THEN after = SubSeq(b, d, Len(b)) /\ yielded = <<>>
        ELSE /\ after = SubSeq(b, e + 2, Len(b))
             /\ yielded \in {<<>>, <<SubSeq(b, d, e - 1)>>}
             /\ HasChecksumSection(SubSeq(b, d, e - 1)) => yielded # <<>>

\* C7: extraction discards the bytes before the first '$' without making a
\* sentence of them and extracts the frame that begins at the '$' intact; a
\* buffer without '$' is discarded entirely and yields no sentence.
C7_GarbageBeforeStartDiscarded ==
    [][pc = "extract" =>
          ExtractionOf(receiveBuffer, receiveBuffer',
                       SubSeq(extracted', Len(extracted) + 1, Len(extracted')))]_vars

\* C7 witness: the one read of the first call brought garbage followed by a
\* valid frame, and the frame was extracted.
C7_Witness ==
    /\ nthCall = "first" /\ readsInCall = 1 /\ pos = Len(stream)
    /\ FirstDollar(stream) > 1
    /\ IsValidFrame(SubSeq(stream, FirstDollar(stream), Len(stream)))
    /\ extracted = <<Body(SubSeq(stream, FirstDollar(stream), Len(stream)))>>
    /\ receiveBuffer = <<>>

\* C8: while the source delivers garbage without '$', the receive buffer
\* never holds more than the bytes of one read, and holds none whenever
\* readAndParseSentence has returned.
C8_GarbageNeverAccumulates ==
    /\ Len(receiveBuffer) <= ReadSize
    /\ pc = "idle" => receiveBuffer = <<>>

\* C8 witness: a full read of garbage is in the buffer.
C8_Witness ==
    /\ Len(receiveBuffer) = ReadSize
    /\ \A i \in 1..Len(receiveBuffer) : receiveBuffer[i] # 36

\* C9: after a truncated frame ('$' and body bytes, no CRLF) the reader finds
\* the next frame start, so the complete valid frame that follows is decoded
\* and returned.
C9_RecoversAfterTruncatedFrame ==
    \A k \in 1..Len(stream) :
        ( /\ IsPartialFrame(SubSeq(stream, 1, k))
          /\ IsValidFrame(SubSeq(stream, k + 1, Len(stream)))
          /\ Exhausted )
        => returned = <<parseSentence(Body(SubSeq(stream, k + 1, Len(stream))))>>

\* Removing the first n bytes of b is (b) a removal of what precedes the first
\* '$' (all of b when it has none), or (a) that followed by the removal of one
\* sentence, from '$' to the first CRLF after it.
RemovalAllowed(b, n) ==
    LET d == FirstDollar(b)
        g == IF d = 0 THEN Len(b) ELSE d - 1
    IN  \/ n = g
        \/ d # 0 /\ NextCRLF(b, d) # 0 /\ n = NextCRLF(b, d) + 1

\* C10: bytes leave the receive buffer only from its front, and only as
\* garbage before the first '$' or as a complete sentence with its CRLF; what
\* follows that CRLF stays in place and in order.
C10_BufferLosesOnlyGarbageOrSentence ==
    [][\/ IsPrefix(receiveBuffer, receiveBuffer')
       \/ /\ Len(receiveBuffer') < Len(receiveBuffer)
          /\ receiveBuffer' = SubSeq(receiveBuffer,
                                     Len(receiveBuffer) - Len(receiveBuffer') + 1,
                                     Len(receiveBuffer))
          /\ RemovalAllowed(receiveBuffer, Len(receiveBuffer) - Len(receiveBuffer'))]_vars

\* C10 witness: a sentence was extracted and the frame that followed it in the
\* buffer is still there, whole.
C10_Witness ==
    /\ pc = "read" /\ Len(extracted) = 1
    /\ IsValidFrame(receiveBuffer)
    /\ stream = extracted[1] \o CRLF \o receiveBuffer

(***************************************************************************)
(* Properties of validateChecksum.                                         *)
(***************************************************************************)
\* The position (1-based) of the first '*' of s, or 0.
FirstStar(s) ==
    IF \E i \in 1..Len(s) : s[i] = 42
    THEN CHOOSE i \in 1..Len(s) : s[i] = 42 /\ \A j \in 1..(i - 1) : s[j] # 42
    ELSE 0

\* c is one of 0-9, A-F, a-f.
IsHexChar(c) == (c >= 48 /\ c <= 57) \/ (c >= 65 /\ c <= 70) \/ (c >= 97 /\ c <= 102)

\* The value of the hexadecimal digit c, whatever its case.
HexCharValue(c) == IF c <= 57 THEN c - 48 ELSE IF c <= 70 THEN c - 55 ELSE c - 87

\* s has no '*', fewer than two bytes after it, or a byte in one of the two
\* positions after it that is no hexadecimal digit.
MalformedChecksumSection(s) ==
    \/ FirstStar(s) = 0
    \/ FirstStar(s) + 2 > Len(s)
    \/ ~IsHexChar(s[FirstStar(s) + 1])
    \/ ~IsHexChar(s[FirstStar(s) + 2])

\* s starts with '$', has a '*', and the XOR of the bytes between them is the
\* value of the two hexadecimal digits after the '*'.
ChecksumMatches(s) ==
    /\ s # <<>> /\ s[1] = 36
    /\ ~MalformedChecksumSection(s)
    /\ XorRange(s, 1, FirstStar(s) - 1)
          = (HexCharValue(s[FirstStar(s) + 1]) * 16) + HexCharValue(s[FirstStar(s) + 2])

\* C11: validateChecksum returns true exactly when the sentence starts with
\* '$', contains a '*', and the XOR of the bytes between them equals the value
\* of the two hexadecimal digits after the '*', in either case; otherwise false.
C11_ChecksumExactlyWhenMatching ==
    applied # "none" => (checksumOk <=> ChecksumMatches(input))

\* C12: a sentence whose checksum section is malformed (no '*', fewer than two
\* bytes after it, a byte that is no hexadecimal digit in one of the two
\* positions) is rejected by validateChecksum and never yields a message,
\* whatever its body is.
C12_MalformedChecksumFailsClosed ==
    (applied # "none" /\ MalformedChecksumSection(input)) =>
        /\ ~checksumOk
        /\ applied = "returned" /\ decoded.kind = "nullopt"

\* s with bit k of its byte at position i (1-based) flipped
FlipBit(s, i, k) == [s EXCEPT ![i] = XorByte(s[i], 2 ^ k)]

\* C13: for a sentence validateChecksum accepts, flipping any single bit of
\* any one byte between the '$' and the '*' gives a sentence it rejects, also
\* when the flipped byte becomes '*' or ','.
C13_SingleBitFlipRejected ==
    (applied = "validated" /\ checksumOk) =>
        \A i \in 2..(FirstStar(input) - 1) : \A k \in 0..7 :
            ~validateChecksum(FlipBit(input, i, k))

(***************************************************************************)
(* Properties of tokenize and parseSentence.                               *)
(***************************************************************************)
\* The bytes of s between its first byte and its first '*'.
BodyText(s) == SubSeq(s, 2, FirstStar(s) - 1)

\* The position (1-based) of the n-th ',' of b; 0 for n = 0 and one past the
\* end of b when b has fewer than n.
NthSeparator(b, n) ==
    LET seps == {i \in 1..Len(b) : b[i] = 44} IN
    IF n = 0 THEN 0
    ELSE IF n > Cardinality(seps) THEN Len(b) + 1
    ELSE CHOOSE i \in seps : Cardinality({j \in seps : j <= i}) = n

\* b split at every ',': k + 1 fields for k separators, none for an empty b.
SplitAtSeparators(b) ==
    IF b = <<>> THEN <<>>
    ELSE [i \in 1..(Cardinality({j \in 1..Len(b) : b[j] = 44}) + 1) |->
              SubSeq(b, NthSeparator(b, i - 1) + 1, NthSeparator(b, i) - 1)]

\* tokenize has run on the input.
Tokenized == applied = "tokenized" \/ (applied = "returned" /\ checksumOk)

\* C15: tokenize returns, for a body with k separators ',', exactly k + 1
\* fields, field i being the text between the i-th and (i+1)-th separator,
\* the empty last field of a body that ends with ',' included; for an empty
\* body it returns the empty sequence.
C15_TokenizeKeepsEmptyFields ==
    Tokenized => tokens = SplitAtSeparators(BodyText(input))

\* parseSentence has returned something other than std::nullopt.
Delivered == applied = "returned" /\ decoded.kind # "nullopt"

\* C16: a message is built only from a sentence that passed validateChecksum
\* and the minimum-field-count check of its discriminator, and that check is
\* sufficient: no builder reads a field index outside the field list.
C16_FieldCountCheckSufficient ==
    Delivered =>
        /\ checksumOk
        /\ Len(tokens) >= MinFieldCount(decoded.type)
        /\ decoded.kind = "msg"
        /\ \A j \in 1..Len(decoded.members) : decoded.members[j].k # "indeterminate"

\* The data members a record declares (satellitesUsed, which the loop of the
\* builder fills with zero or more values, left aside).
Declared(type) ==
    CASE type = "GPRMC" -> {"utcTime", "status", "latitude", "latDir", "longitude",
                            "lonDir", "speed", "course", "date"}
      [] type = "GPGGA" -> {"utcTime", "latitude", "latDir", "longitude", "lonDir",
                            "fixQuality", "numSatellites", "hdop", "altitude",
                            "altitudeUnits"}
      [] type = "GPGLL" -> {"latitude", "latDir", "longitude", "lonDir", "utcTime",
                            "status"}
      [] type = "GPVTG" -> {"courseTrue", "courseTrueUnit", "speedKnots",
                            "speedKnotsUnit", "speedKmh", "speedKmhUnit"}
      [] type = "GPGSA" -> {"mode", "fixType", "pdop", "hdop", "vdop"}
      [] type = "GPGSV" -> {"totalMessages", "messageNumber", "satellitesInView"}

\* The members of a message that were assigned from a field.
Assigned(msg) ==
    {msg.members[j].m : j \in {i \in 1..Len(msg.members) :
                                   msg.members[i].k # "indeterminate"}}

\* C17: every message parseSentence returns is fully populated: each declared
\* member of the record, latDir and lonDir included, was assigned from the
\* field list before the message is returned.
C17_MessageFullyPopulated ==
    (applied = "returned" /\ decoded.kind = "msg") =>
        Declared(decoded.type) \subseteq Assigned(decoded)

\* f is a number in full: an optional sign, then digits with at most one '.'.
IsNumberText(f) ==
    LET r == IF f # <<>> /\ f[1] \in {43, 45} THEN Tail(f) ELSE f IN
    /\ \E i \in 1..Len(r) : r[i] \in 48..57
    /\ \A i \in 1..Len(r) : r[i] \in (48..57) \cup {46}
    /\ Cardinality({i \in 1..Len(r) : r[i] = 46}) <= 1

\* The field indices a builder converts with std::stoi or std::stod.
NumericIndices(type) ==
    CASE type = "GPRMC" -> {7, 8}
      [] type = "GPGGA" -> {6, 7, 8, 9}
      [] type = "GPGLL" -> {}
      [] type = "GPVTG" -> {1, 5, 7}
      [] type = "GPGSA" -> {2, 15, 16, 17}
      [] type = "GPGSV" -> {1, 2, 3}

\* The supported type whose discriminator is d, or "" when there is none.
TypeOf(d) ==
    IF \E t \in SupportedTypes : TypeBytes(t) = d
    THEN CHOOSE t \in SupportedTypes : TypeBytes(t) = d
    ELSE ""

\* fs has a recognized discriminator and fewer fields than its minimum, or a
\* field that is no number in full where the builder needs a number.
HasMalformedFields(fs) ==
    /\ TypeOf(fs[1]) # ""
    /\ \/ Len(fs) < MinFieldCount(TypeOf(fs[1]))
       \/ \E k \in NumericIndices(TypeOf(fs[1])) : k < Len(fs) /\ ~IsNumberText(fs[k + 1])

\* $GPGSV*HH: a recognized discriminator with too few fields.
TooFewFieldsSentence == Body(Frame(TypeBytes("GPGSV")))

\* C18: an unrecognized discriminator and malformed fields (too few fields, or
\* a field that is not fully numeric where a number is required) are two
\* failures a caller can tell apart, and neither produces a message.
C18_FailureKindsDistinguished ==
    (applied = "returned" /\ checksumOk /\ tokens # <<>>) =>
        /\ TypeOf(tokens[1]) = "" =>
              /\ decoded.kind = "nullopt"
              /\ decoded # parseSentence(TooFewFieldsSentence)
        /\ HasMalformedFields(tokens) => decoded.kind = "nullopt"

\* The member of a message with the given name.
Member(msg, name) ==
    msg.members[CHOOSE j \in 1..Len(msg.members) : msg.members[j].m = name]

\* The fields of latitude, its hemisphere, longitude and its hemisphere.
CoordinateFields(type) ==
    CASE type = "GPRMC" -> [lat |-> 3, latDir |-> 4, lon |-> 5, lonDir |-> 6]
      [] type = "GPGGA" -> [lat |-> 2, latDir |-> 3, lon |-> 4, lonDir |-> 5]
      [] type = "GPGLL" -> [lat |-> 1, latDir |-> 2, lon |-> 3, lonDir |-> 4]

\* v is degDigits digits of degrees, then minutes as mm.fff
IsCoordinateText(v, degDigits) ==
    /\ Len(v) = degDigits + 6
    /\ v[degDigits + 3] = 46
    /\ \A i \in (1..Len(v)) \ {degDigits + 3} : v[i] \in 48..57

\* degrees + minutes / 60 of such a text, in units of 1/60000 degree
DegreesAndMinutes(v, degDigits) ==
    LET d(i) == v[i] - 48
        deg  == IF degDigits = 2 THEN (d(1) * 10) + d(2)
                ELSE (d(1) * 100) + (d(2) * 10) + d(3)
        min  == (d(degDigits + 1) * 10) + d(degDigits + 2)
        frac == (d(degDigits + 4) * 100) + (d(degDigits + 5) * 10) + d(degDigits + 6)
    IN  (((deg * 60) + min) * 1000) + frac

\* The coordinate in field f of fs with the hemisphere in field h, negative
\* exactly for the hemisphere letter neg.
ExpectedCoordinate(fs, f, h, degDigits, neg) ==
    IF fs[h + 1] # <<>> /\ fs[h + 1][1] = neg
    THEN 0 - DegreesAndMinutes(fs[f + 1], degDigits)
    ELSE DegreesAndMinutes(fs[f + 1], degDigits)

TextbookSentence == Body(Frame(TextbookBody))

\* C19: latitude is the first two digits as degrees plus the rest as minutes
\* over 60, longitude the same with three digits, negated exactly for the
\* hemisphere letter 'S' or 'W'; the sentence
\* $GPGGA,123519,4807.038,N,01131.000,E,1,08,0.9,545.4,M,46.9,M,,*47 decodes
\* to a GPGGA message with latitude 48 + 7.038/60, longitude 11 + 31.000/60,
\* fix quality 1 and 8 satellites.
C19_CoordinatesDegreesAndMinutes ==
    /\ (applied = "returned" /\ decoded.kind = "msg"
           /\ decoded.type \in {"GPRMC", "GPGGA", "GPGLL"}) =>
          LET c == CoordinateFields(decoded.type) IN
          /\ IsCoordinateText(tokens[c.lat + 1], 2) =>
                Member(decoded, "latitude").i
                    = ExpectedCoordinate(tokens, c.lat, c.latDir, 2, 83)
          /\ IsCoordinateText(tokens[c.lon + 1], 3) =>
                Member(decoded, "longitude").i
                    = ExpectedCoordinate(tokens, c.lon, c.lonDir, 3, 87)
    /\ (applied = "returned" /\ input = TextbookSentence) =>
          /\ decoded.kind = "msg" /\ decoded.type = "GPGGA"
          /\ Member(decoded, "latitude").i = (48 * 60000) + 7038
          /\ Member(decoded, "longitude").i = (11 * 60000) + 31000
          /\ Member(decoded, "fixQuality").i = 1
          /\ Member(decoded, "numSatellites").i = 8

\* C19 witness: the textbook sentence was decoded.
C19_Witness ==
    /\ applied = "returned" /\ input = TextbookSentence
    /\ Len(TextbookSentence) = 65 /\ SubSeq(input, 63, 65) = Str(<<"*", "4", "7">>)
    /\ decoded.kind = "msg"

(***************************************************************************)
(* Properties of the reader on frames that fail, and of two readers.       *)
(***************************************************************************)
\* The sentence of the complete frame at the front of b ('$' to the first
\* CRLF after it, bytes before the '$' left aside), or <<>> if b has none.
FrontSentence(b) ==
    IF FirstDollar(b) # 0 /\ NextCRLF(b, FirstDollar(b)) # 0
    THEN SubSeq(b, FirstDollar(b), NextCRLF(b, FirstDollar(b)) - 1)
    ELSE <<>>

\* Sentence s fails validation or decoding: it has no checksum section, or
\* parseSentence has no message for it.
Fails(s) == ~HasChecksumSection(s) \/ parseSentence(s).kind = "nullopt"

C20_TwinReadersAgree ==
    twin.on =>
        /\ twin.pc = pc
        /\ twin.ret = ret
        /\ twin.returned = returned
        /\ twin.receiveBuffer = receiveBuffer

(***************************************************************************)
(* Properties of Comms.                                                    *)
(***************************************************************************)
\* The last receiveMessage has returned a frame.
FrameReturned == rx.pc = "idle" /\ result.kind = "frame"

\* The bytes recv has handed out since the last receiveMessage was entered.
Consumed == SubSeq(wire, rx.start + 1, rxPos)

\* The number n < 2^32 as four bytes, most significant first.
BigEndian32(n) == <<n \div 16777216, (n \div 65536) % 256, (n \div 256) % 256, n % 256>>

\* The frames of the messages ms on the wire, each framed by Framed.
OnWire(ms, Framed(_)) == Concat([i \in 1..Len(ms) |-> Framed(ms[i])])

LengthPrefixed(m) == BigEndian32(Len(m)) \o m

Terminated(m) == m \o <<13, 10>>

Unframed(m) == m

\* All that has arrived is what the peer sent back of the frames sent.
EchoOnly == wire = out

\* No recv on the connection has reported the peer's close or an error.
Healthy == comms.sock # INVALID_SOCKET /\ peer = "open"

\* s holds "\r\n".
HasCRLF(s) == \E j \in 1..Len(s) : IsCRLFAt(s, j)

\* The frames frames[1..] are the messages ms[1..], in order.
FramesAre(ms) ==
    /\ Len(frames) <= Len(ms)
    /\ \A k \in 1..Len(frames) :
          frames[k] = [size |-> [hi |-> 0, lo |-> Len(ms[k])], data |-> ms[k]]

\* The bytes of the first n frames of ms on the wire.
SizeOnWire(ms, n, overhead) ==
    Len(Concat([i \in 1..n |-> ms[i]])) + n * overhead

\* C21: under length-prefix framing receiveMessage returns a frame only when
\* the four header bytes and all the body bytes the header declares have been
\* received; when the stream ends or a receive fails before that, it returns
\* no frame, neither a truncated nor a padded one.
C21_FrameOnlyWhenWhole ==
    comms.framing = "LengthPrefix" =>
        /\ FrameReturned =>
              /\ ~rx.failed
              /\ Len(Consumed) = 4 + Len(result.data)
              /\ result.size = [hi |-> 0, lo |-> Len(result.data)]
        /\ (rx.pc = "idle" /\ rx.failed) => result.kind = "error"

\* C22: under length-prefix framing sendMessage produces the length of m as
\* four bytes, most significant first, followed by m; receiveMessage reading
\* those bytes returns m and consumes 4 + |m| bytes, however recv splits them
\* and also when m is empty.
C22_LengthPrefixRoundTrip ==
    comms.framing = "LengthPrefix" =>
        /\ out = OnWire(sentMsgs, LengthPrefixed)
        /\ EchoOnly =>
              /\ FramesAre(sentMsgs)
              /\ FrameReturned => rxPos = SizeOnWire(sentMsgs, Len(frames), 4)
              /\ rxPos <= SizeOnWire(sentMsgs, Min(Len(frames) + 1, Len(sentMsgs)), 4)

\* C22 witness: the empty message and "AB" came back and were received, "AB"
\* in six receives of one byte each.
C22_Witness ==
    /\ comms.framing = "LengthPrefix" /\ EchoOnly
    /\ sentMsgs = <<<<>>, <<65, 66>>>>
    /\ FrameReturned /\ Len(frames) = 2 /\ result.data = <<65, 66>> /\ rx.recvs = 6

\* C23: the framing strategy is the one given at construction: no operation
\* changes it, every sendMessage frames with it and every receiveMessage
\* runs the receive of it.
C23_FramingFixed ==
    /\ [][comms'.framing = comms.framing]_vars
    /\ [][Len(out') > Len(out) =>
            \E m \in Messages :
                /\ sentMsgs' = Append(sentMsgs, m)
                /\ out' = out \o (CASE comms.framing = "CRLF" -> Terminated(m)
                                    [] comms.framing = "LengthPrefix" -> LengthPrefixed(m)
                                    [] OTHER -> Unframed(m))]_vars
    /\ [](rx.pc \in (CASE comms.framing = "CRLF" -> {"idle", "crlf"}
                       [] comms.framing = "LengthPrefix" -> {"idle", "header", "alloc", "body"}
                       [] comms.framing = "Timeout" -> {"idle", "select", "crashed"}
                       [] comms.framing = "None" -> {"idle", "raw"}))

\* C23 witness: after a message was sent and a frame received under the
\* length-prefix strategy, a connectToServer that failed closed the socket.
C23_Witness ==
    /\ comms.framing = "LengthPrefix" /\ comms.sock = INVALID_SOCKET
    /\ Len(sentMsgs) = 1 /\ Len(frames) = 1

\* C24: under the raw strategy receiveMessage returns the bytes of one
\* receive that brought at least one byte, unchanged, and holds nothing back;
\* when the stream has ended or the receive fails it raises an error instead
\* of returning an empty frame; sendMessage sends the bytes unchanged.
C24_RawPassesThrough ==
    comms.framing = "None" =>
        /\ out = OnWire(sentMsgs, Unframed)
        /\ FrameReturned =>
              /\ rx.recvs = 1 /\ ~rx.failed
              /\ result.data = Consumed /\ result.data # <<>>
              /\ result.size = [hi |-> 0, lo |-> Len(Consumed)]
        /\ (rx.pc = "idle" /\ rx.failed) => result.kind = "error"
        /\ rx.buffer = <<>>

\* C24 witness: a raw receive returned two of the bytes that had arrived and
\* left the others unread.
C24_Witness ==
    /\ comms.framing = "None" /\ FrameReturned
    /\ Len(result.data) = 2 /\ rxPos < Len(wire) /\ sentMsgs # <<>>

\* C25: under CRLF framing receiveMessage returns the bytes before the first
\* "\r\n" and consumes those and the terminator, no byte after it, also when
\* '\r' and '\n' arrive in separate receives; so a message without "\r\n"
\* that was sent is received as it was, and two messages sent back to back
\* are received as two frames in order.
C25_CRLFRoundTrip ==
    comms.framing = "CRLF" =>
        /\ out = OnWire(sentMsgs, Terminated)
        /\ (Healthy /\ FrameReturned) =>
              /\ Consumed = result.data \o <<13, 10>>
              /\ \A j \in 1..(Len(Consumed) - 2) : ~IsCRLFAt(Consumed, j)
        /\ (Healthy /\ EchoOnly /\ \A k \in 1..Len(sentMsgs) : ~HasCRLF(sentMsgs[k]))
              => FramesAre(sentMsgs)

\* C25 witness: the messages "\r" and "AB" were sent back to back and were
\* received as two frames.
C25_Witness ==
    /\ comms.framing = "CRLF" /\ Healthy /\ EchoOnly
    /\ sentMsgs = <<<<13>>, <<65, 66>>>>
    /\ FrameReturned /\ Len(frames) = 2 /\ result.data = <<65, 66>>

\* C27: under every framing strategy receiveMessage returns a complete frame
\* or raises an error: when the connection closes or a receive fails in the
\* middle of a frame or before its first byte, what was received is not
\* returned as a frame.
C27_NoPartialFrame ==
    (rx.pc = "idle" /\ rx.failed) => result.kind # "frame"

\* C28: for every length the four header bytes can declare, also one of 2^31
\* or more, receiveWithLengthPrefix returns a body of that many bytes, each
\* of them received from the socket after the header.
C28_BodyOfDeclaredLength ==
    (comms.framing = "LengthPrefix" /\ FrameReturned) =>
        /\ Len(Consumed) >= 4
        /\ SubSeq(Consumed, 1, 4) = BigEndian32(Len(result.data))
        /\ result.data = SubSeq(Consumed, 5, Len(Consumed))

(***************************************************************************)
(* Termination of a call of the reader.                                    *)
(***************************************************************************)
\* C26: every call of readAndParseSentence returns: with a message when a
\* buffered sentence decodes, with "no message" at its first empty read, be
\* the buffer empty or holding a partial frame.
C26_CallReturns ==
    (pc \in {"extract", "read"}) ~> (pc = "idle" /\ ret.kind \in {"msg", "nullopt"})

(***************************************************************************)
(* Two readers of one stream: the second is given the stream in reads of   *)
(* all that is left and polls until nothing is left, then the first reads  *)
(* the same stream in any cut, with timed-out reads anywhere.              *)
(***************************************************************************)
\* The second reader has the whole stream behind it: a poll found nothing to
\* return and no complete sentence is buffered, or the program has ended.
TwinDone ==
    \/ twin.pc = "crashed"
    \/ /\ twin.pc = "idle" /\ twin.pos = Len(stream) /\ twin.ret.kind = "nullopt"
       /\ ~HasCompleteSentence(twin.receiveBuffer)

\* The caller polls the second reader.
WholeCall ==
    /\ twin.whole /\ twin.pc = "idle" /\ ~TwinDone
    /\ twin' = [twin EXCEPT !.pc = "extract", !.ret = NoResult]
    /\ UNCHANGED <<readerVars, parserVars, commsVars, netVars>>

\* Step 1 of the loop in the second reader.
WholeExtract ==
    /\ twin.whole /\ twin.pc = "extract"
    /\ LET e == extractCompleteSentence(twin.receiveBuffer) IN
       IF e.has
       THEN \E r \in parse(e.sentence) : twin' = TwinParsed(twin, e.buffer, r)
       ELSE twin' = [twin EXCEPT !.receiveBuffer = e.buffer, !.pc = "read"]
    /\ UNCHANGED <<readerVars, parserVars, commsVars, netVars>>

\* Steps 2 and 3 in the second reader: readBytes returns what is left of the
\* stream, and the empty string after that.
WholeRead ==
    /\ twin.whole /\ twin.pc = "read"
    /\ LET newData == readBytes(SubSeq(stream, twin.pos + 1, Len(stream)), ReadSize) IN
       twin' = IF newData = <<>>
               THEN [twin EXCEPT !.receiveBuffer = onEmptyRead(@), !.pc = "idle",
                                 !.ret = NullOptResult]
               ELSE [twin EXCEPT !.receiveBuffer = appendData(@, newData),
                                 !.pc = "extract", !.pos = @ + Len(newData)]
    /\ UNCHANGED <<readerVars, parserVars, commsVars, netVars>>

InitChunked ==
    /\ stream \in Streams /\ Fresh /\ input = <<>> /\ ParserUnused
    /\ twin = [FreshTwin(FALSE) EXCEPT !.whole = TRUE]
    /\ CommsUnused /\ NetUnused

NextChunked == WholeCall \/ WholeExtract \/ WholeRead \/ (TwinDone /\ Next)

SpecChunked == InitChunked /\ [][NextChunked]_vars

\* C29: the messages a reader returns depend on the bytes of the stream only,
\* not on how the stream is cut into reads nor on where reads time out: the
\* reader that polls under any cut returns what the reader given the stream
\* in one read returns, in the same order, and all of it once the stream is
\* exhausted.
C29_ChunkingIndependent ==
    (twin.whole /\ TwinDone) =>
        /\ IsPrefix(returned, twin.returned)
        /\ (Exhausted \/ pc = "crashed") => returned = twin.returned

====
